---------------------------- MODULE Spec2Model ----------------------------
(* A model of spindrift's packager (src/lib/spindrift/packager.py): the     *)
(* cascading dependency installer, the artifact cache lookup, the local     *)
(* source installer with its native-library closure, and the archive        *)
(* builder.  Texts (package keys, versions, file names, urls, library       *)
(* names) are sequences of one-character strings, so that lower(),          *)
(* replace(), startswith() and endswith() are computed as Python computes   *)
(* them.                                                                    *)
EXTENDS Integers, Sequences, FiniteSets, TLC

VARIABLES
    package,      \* key of the root package being packaged
    runtime,      \* the runtime argument, a text
    download,     \* the download argument
    deps,         \* the dependency list handed to install_dependencies
    cache,        \* the cache directory: file name |-> content kind
    sys,          \* the build machine: ldconfig paths, libraries, NEEDED entries
    staging,      \* the staging tree: path |-> [data, mode]
    idx,          \* position of install_dependencies' loop in deps
    pc,           \* the statement the run is at
    attempts,     \* per position in deps: the strategies tried, with outcomes
    requests,     \* per position in deps: the network requests issued, with their answers
    installed,    \* installed_dependencies: method |-> positions of deps
    error,        \* the exception that ended the run, or NoError
    local,        \* locals of install_local_package while it runs
    archive,      \* the zip file create_zip_bundle writes: a sequence of entries
    probe,        \* find_shared_objects applied on its own: arguments and results
    options,      \* the other arguments of package: type, prefer_pyc, kind of destination
    temp_path,    \* the temporary directory of the run: "exists" or "removed"
    destination,  \* what the run has written to its destination
    earlier,      \* the downloads of earlier runs that used the same cache directory
    listing,      \* the order in which the file system lists the names of a directory
    working_set,  \* the distributions installed on the build machine and what each requires
    peer          \* another run that shares the cache directory: where its download is

\* what a run is given, and never changes
given == <<package, runtime, download, deps, sys, options, listing, working_set>>

vars == <<package, runtime, download, deps, cache, sys, staging, idx, pc,
          attempts, requests, installed, error, local, archive, probe, options, temp_path,
          destination, earlier, listing, working_set, peer>>

-----------------------------------------------------------------------------
(* Bounds of the model.                                                     *)

MaxDeps == 2
MaxStart == 2
MaxNeeded == 2
RecursionLimit == 5
MaxStaged == 2

-----------------------------------------------------------------------------
(* Texts.                                                                   *)

UpperToLower ==
    [c \in {"A","B","C","D","E","F","G","H","I","J","K","L","M","N","O","P","Q",
            "R","S","T","U","V","W","X","Y","Z"} |->
        CASE c = "A" -> "a" [] c = "B" -> "b" [] c = "C" -> "c" [] c = "D" -> "d"
          [] c = "E" -> "e" [] c = "F" -> "f" [] c = "G" -> "g" [] c = "H" -> "h"
          [] c = "I" -> "i" [] c = "J" -> "j" [] c = "K" -> "k" [] c = "L" -> "l"
          [] c = "M" -> "m" [] c = "N" -> "n" [] c = "O" -> "o" [] c = "P" -> "p"
          [] c = "Q" -> "q" [] c = "R" -> "r" [] c = "S" -> "s" [] c = "T" -> "t"
          [] c = "U" -> "u" [] c = "V" -> "v" [] c = "W" -> "w" [] c = "X" -> "x"
          [] c = "Y" -> "y" [] c = "Z" -> "z"]

\* str.lower()
Lower(s) ==
    [i \in 1..Len(s) |-> IF s[i] \in DOMAIN UpperToLower THEN UpperToLower[s[i]] ELSE s[i]]

\* str.upper(), used only to draw file names of other letter case
Upper(s) ==
    [i \in 1..Len(s) |->
        IF \E u \in DOMAIN UpperToLower : UpperToLower[u] = s[i]
        THEN CHOOSE u \in DOMAIN UpperToLower : UpperToLower[u] = s[i]
        ELSE s[i]]

\* str.startswith(prefix)
StartsWith(s, prefix) ==
    /\ Len(prefix) <= Len(s)
    /\ SubSeq(s, 1, Len(prefix)) = prefix

\* str.endswith(suffix)
EndsWith(s, suffix) ==
    /\ Len(suffix) <= Len(s)
    /\ SubSeq(s, Len(s) - Len(suffix) + 1, Len(s)) = suffix

\* str.replace(old, new) for a one-character old and new
ReplaceChar(s, old, new) ==
    [i \in 1..Len(s) |-> IF s[i] = old THEN new ELSE s[i]]

\* str.replace(old, ""): every non-overlapping occurrence of old, left to right
RECURSIVE Remove(_, _)
Remove(s, old) ==
    IF s = <<>> THEN <<>>
    ELSE IF StartsWith(s, old) THEN Remove(SubSeq(s, Len(old) + 1, Len(s)), old)
    ELSE <<s[1]>> \o Remove(Tail(s), old)

\* os.path.basename(url): what follows the last "/"
Basename(s) ==
    LET slashes == {i \in 1..Len(s) : s[i] = "/"}
    IN  IF slashes = {} THEN s
        ELSE SubSeq(s, (CHOOSE i \in slashes : \A j \in slashes : j <= i) + 1, Len(s))

\* "{}-{}-{}".format(a, b, c)
Dashed(a, b, c) == a \o <<"-">> \o b \o <<"-">> \o c

Range(s) == {s[i] : i \in 1..Len(s)}

-----------------------------------------------------------------------------
(* Platform tags: _get_wheel_suffixes.                                      *)

\* 'python'
TxtPython ==
    <<"p","y","t","h","o","n">>

\* 'python2.'
TxtPython2Dot ==
    <<"p","y","t","h","o","n","2",".">>

\* 'python3.'
TxtPython3Dot ==
    <<"p","y","t","h","o","n","3",".">>

\* 'cp'
TxtCp ==
    <<"c","p">>

\* 'py'
TxtPy ==
    <<"p","y">>

\* 'm'
TxtM ==
    <<"m">>

\* 'mu'
TxtMu ==
    <<"m","u">>

\* '-manylinux_2_17_x86_64.manylinux2014_x86_64.whl'
TxtManylinux2014 ==
    <<"-","m","a","n","y","l","i","n","u","x","_","2","_","1","7","_","x","8",
    "6","_","6","4",".","m","a","n","y","l","i","n","u","x","2","0","1","4",
    "_","x","8","6","_","6","4",".","w","h","l">>

\* '-manylinux2010_x86_64.whl'
TxtManylinux2010 ==
    <<"-","m","a","n","y","l","i","n","u","x","2","0","1","0","_","x","8","6",
    "_","6","4",".","w","h","l">>

\* '-manylinux1_x86_64.whl'
TxtManylinux1 ==
    <<"-","m","a","n","y","l","i","n","u","x","1","_","x","8","6","_","6","4",
    ".","w","h","l">>

\* '-abi3'
TxtAbi3 ==
    <<"-","a","b","i","3">>

\* 'cp34-abi3-manylinux1_x86_64.whl'
TxtCp34Abi3Manylinux1 ==
    <<"c","p","3","4","-","a","b","i","3","-","m","a","n","y","l","i","n","u",
    "x","1","_","x","8","6","_","6","4",".","w","h","l">>

\* 'cp34-abi3-manylinux2010_x86_64.whl'
TxtCp34Abi3Manylinux2010 ==
    <<"c","p","3","4","-","a","b","i","3","-","m","a","n","y","l","i","n","u",
    "x","2","0","1","0","_","x","8","6","_","6","4",".","w","h","l">>

\* '-none-any.whl'
TxtNoneAny ==
    <<"-","n","o","n","e","-","a","n","y",".","w","h","l">>

\* 'py2.py3-none-any.whl'
TxtPy2Py3NoneAny ==
    <<"p","y","2",".","p","y","3","-","n","o","n","e","-","a","n","y",".","w",
    "h","l">>

\* '.whl'
TxtWhl ==
    <<".","w","h","l">>

\* the runtimes _get_wheel_suffixes knows
AvailableRuntimes ==
    { TxtPython \o <<"2",".","7">>, TxtPython \o <<"3",".","6">>,
      TxtPython \o <<"3",".","7">>, TxtPython \o <<"3",".","8">>,
      TxtPython \o <<"3",".","9">> }

\* runtime.replace("python", "").replace(".", "")
RuntimeVersion(rt) == Remove(Remove(rt, TxtPython), <<".">>)

\* "cp{version}-cp{version}" + abi flag + platform
CpTag(version, flag, platform) ==
    TxtCp \o version \o <<"-">> \o TxtCp \o version \o flag \o platform

SuffixesPython2(version) ==
    << CpTag(version, TxtMu, TxtManylinux2010),
       CpTag(version, TxtMu, TxtManylinux1) >>

SuffixesPython3(version) ==
    << CpTag(version, TxtM, TxtManylinux2014),
       CpTag(version, <<>>, TxtManylinux2014),
       CpTag(version, TxtM, TxtManylinux2010),
       CpTag(version, <<>>, TxtManylinux2010),
       CpTag(version, TxtM, TxtManylinux1),
       CpTag(version, <<>>, TxtManylinux1),
       TxtCp \o version \o TxtAbi3 \o TxtManylinux2010,
       TxtCp \o version \o TxtAbi3 \o TxtManylinux1,
       TxtCp34Abi3Manylinux1,
       TxtCp34Abi3Manylinux2010 >>

\* version[:1]
FirstChar(version) == IF version = <<>> THEN <<>> ELSE <<version[1]>>

SuffixesAny(version) ==
    << TxtPy \o FirstChar(version) \o TxtNoneAny, TxtPy2Py3NoneAny >>

\* a mutant of RuntimeParses: every tag that starts with 'python' passes
RuntimeParsesAnyPython(rt) == StartsWith(rt, TxtPython)

\* the ValueError of _get_wheel_suffixes
RuntimeParses(rt) == StartsWith(rt, TxtPython2Dot) \/ StartsWith(rt, TxtPython3Dot)

\* warnings.warn("unknown runtime, ...")
RuntimeWarns(rt) == RuntimeParses(rt) /\ rt \notin AvailableRuntimes

\* the list _get_wheel_suffixes returns when it does not raise
GetWheelSuffixes(rt) ==
    LET version == RuntimeVersion(rt)
    IN  (IF StartsWith(rt, TxtPython2Dot)
         THEN SuffixesPython2(version)
         ELSE SuffixesPython3(version)) \o SuffixesAny(version)

-----------------------------------------------------------------------------
(* The artifact cache: load_cached_wheels, _install_cached_manylinux_version. *)

\* content kinds of a file in the cache directory
Zip == "zip"
Truncated == "truncated"

\* the files load_cached_wheels keeps: file.endswith(".whl")
WheelFiles(c) == {f \in DOMAIN c : EndsWith(f, TxtWhl)}

\* the keys of the dict load_cached_wheels returns: ret[file], ret[file.lower()]
CachedKeys(c) == WheelFiles(c) \cup {Lower(f) : f \in WheelFiles(c)}

\* the files the dict may hold under a key: every file that wrote the key; the
\* last one os.walk lists wins, and the listing order is the file system's
CachedPaths(c, k) == {f \in WheelFiles(c) : f = k \/ Lower(f) = k}

\* the two names tried for one suffix: the key, then the key with "-" as "_"
WheelNames(dep, suffix) ==
    << Dashed(dep.key, dep.version, suffix),
       Dashed(ReplaceChar(dep.key, "-", "_"), dep.version, suffix) >>

\* the names _install_cached_manylinux_version tries, in the order it tries them
CandidateWheelNames(dep, suffixes) ==
    [n \in 1..(2 * Len(suffixes)) |-> WheelNames(dep, suffixes[(n + 1) \div 2])[2 - (n % 2)]]

\* wheel_name after the loop: the first candidate whose lower() is a key, or None
None == <<"None">>

FindWheelName(c, dep, suffixes) ==
    LET names == CandidateWheelNames(dep, suffixes)
        hits  == {n \in 1..Len(names) : Lower(names[n]) \in CachedKeys(c)}
    IN  IF hits = {} THEN None
        ELSE names[CHOOSE n \in hits : \A m \in hits : n <= m]

\* available_wheels[wheel_name.lower()]: the files that may be unpacked
FoundWheelPaths(c, dep, suffixes) ==
    LET name == FindWheelName(c, dep, suffixes)
    IN  IF name = None THEN {} ELSE CachedPaths(c, Lower(name))

-----------------------------------------------------------------------------
(* Dependencies and what the run is given.                                  *)

KeyApp == <<"a","p","p">>
KeyFooBar == <<"f","o","o","-","b","a","r">>
KeyCryptography == <<"c","r","y","p","t","o","g","r","a","p","h","y">>
KeyXmlsec == <<"x","m","l","s","e","c">>
KeyPythonMagic == <<"p","y","t","h","o","n","-","m","a","g","i","c">>
KeyPyyaml == <<"p","y","y","a","m","l">>
KeyCffi == <<"c","f","f","i">>
KeyPyrsistent == <<"p","y","r","s","i","s","t","e","n","t">>
KeySetuptools == <<"s","e","t","u","p","t","o","o","l","s">>
KeySqlalchemyRedshift == <<"s","q","l","a","l","c","h","e","m","y","-","r","e","d","s","h","i","f","t">>

Version10 == <<"1",".","0">>
Version20 == <<"2",".","0">>

\* a pkg_resources distribution: dependency.key, dependency.version
Dep(key) == [key |-> key, version |-> Version10]

RuntimePython37 == <<"p","y","t","h","o","n","3",".","7">>
RuntimePython27 == <<"p","y","t","h","o","n","2",".","7">>
RuntimePython37NoDot == <<"p","y","t","h","o","n","3","7">>

InstallManylinuxVersion == "install_manylinux_version"
DownloadAndInstallManylinuxVersion == "download_and_install_manylinux_version"
InstallLocalPackage == "install_local_package"
Methods == {InstallManylinuxVersion, DownloadAndInstallManylinuxVersion, InstallLocalPackage}

NoError == [kind |-> "none"]

\* sequences over S without repetition, of length at most n
RECURSIVE SeqsNoRep(_, _)
SeqsNoRep(S, n) ==
    IF n = 0 THEN {<<>>}
    ELSE {<<>>} \cup
         UNION {{<<x>> \o t : t \in {u \in SeqsNoRep(S, n - 1) : x \notin Range(u)}} : x \in S}

\* sequences over S of length at most n
RECURSIVE SeqsUpTo(_, _)
SeqsUpTo(S, n) ==
    IF n = 0 THEN {<<>>}
    ELSE {<<>>} \cup {<<x>> \o t : x \in S, t \in SeqsUpTo(S, n - 1)}

\* the functions from a subset of S to T
PartialFunctions(S, T) == UNION {[D -> T] : D \in SUBSET S}

-----------------------------------------------------------------------------
(* Native libraries: find_shared_objects and what it calls.                 *)

\* the characters of library names, in code point order
CodePointOrder ==
    << "-", ".", "/", "0", "1", "2", "3", "4", "5", "6", "7", "8", "9",
       "A", "B", "C", "D", "E", "F", "G", "H", "I", "J", "K", "L", "M", "N", "O",
       "P", "Q", "R", "S", "T", "U", "V", "W", "X", "Y", "Z", "_",
       "a", "b", "c", "d", "e", "f", "g", "h", "i", "j", "k", "l", "m", "n", "o",
       "p", "q", "r", "s", "t", "u", "v", "w", "x", "y", "z" >>

CodePoint(c) == CHOOSE i \in 1..Len(CodePointOrder) : CodePointOrder[i] = c

\* a < b for Python strings
TextLess(a, b) ==
    \/ Len(a) < Len(b) /\ SubSeq(b, 1, Len(a)) = a
    \/ \E k \in 1..Len(a) :
          /\ k <= Len(b)
          /\ SubSeq(a, 1, k - 1) = SubSeq(b, 1, k - 1)
          /\ CodePoint(a[k]) < CodePoint(b[k])

\* sorted(list(set(ret)))
RECURSIVE SortTexts(_)
SortTexts(S) ==
    IF S = {} THEN <<>>
    ELSE LET least == CHOOSE x \in S : \A y \in S \ {x} : TextLess(x, y)
         IN  <<least>> \o SortTexts(S \ {least})

\* a mutant of SortedSet: the list as collected, neither deduplicated nor sorted
SortedSetOmitted(ret) == ret

\* the return statement of find_shared_objects
SortedSet(ret) == SortTexts(Range(ret))

\* ignored_shared_objects of install_local_package
IgnoredSharedObjects == << <<"l","i","b","c",".","s","o">>, <<"l","i","b","z",".","s","o">>, <<"l","d","-","l","i","n","u","x","-","x","8","6","-","6","4",".","s","o">> >>

\* a mutant of IsIgnoredSharedObject: the name compared whole, not as a prefix
IsIgnoredSharedObjectExact(dependency, ignored_dependencies) ==
    \E i \in 1..Len(ignored_dependencies) : dependency = ignored_dependencies[i]

IsIgnoredSharedObject(dependency, ignored_dependencies) ==
    \E i \in 1..Len(ignored_dependencies) : StartsWith(dependency, ignored_dependencies[i])

\* str.strip(chars): leading and trailing characters of the set removed
RECURSIVE Strip(_, _)
Strip(s, chars) ==
    IF s = <<>> THEN s
    ELSE IF s[1] \in chars THEN Strip(Tail(s), chars)
    ELSE IF s[Len(s)] \in chars THEN Strip(SubSeq(s, 1, Len(s) - 1), chars)
    ELSE s

Whitespace == {" ", "\t", "\n", "\r"}

\* ld_library_paths of install_local_package: the lines of `ldconfig -v` that do
\* not start with a tab, stripped of whitespace and of ":"
RECURSIVE LdLibraryPaths(_)
LdLibraryPaths(lines) ==
    IF lines = <<>> THEN <<>>
    ELSE IF StartsWith(Head(lines), <<"\t">>) THEN LdLibraryPaths(Tail(lines))
    ELSE <<Strip(Strip(Head(lines), Whitespace), {":"})>> \o LdLibraryPaths(Tail(lines))

\* the search paths, in order, that hold a file of that name
PathsHolding(s, ld_library_paths, shared_object) ==
    {i \in 1..Len(ld_library_paths) : <<ld_library_paths[i], shared_object>> \in s.files}

\* the first search path that holds the file; 0 when none does
FirstPathHolding(s, ld_library_paths, shared_object) ==
    LET holding == PathsHolding(s, ld_library_paths, shared_object)
    IN  IF holding = {} THEN 0 ELSE CHOOSE i \in holding : \A j \in holding : i <= j

\* readelf and get_dependencies_from_elf_data on a library file: the names of
\* its NEEDED entries, in the order of the dynamic section
ElfDependencies(s, library) == s.needed[library]

FindSharedObjectDependencies(s, shared_object, ld_library_paths, ignored_dependencies) ==
    LET NotIgnored(d) == ~IsIgnoredSharedObject(d, ignored_dependencies)
    IN  IF FirstPathHolding(s, ld_library_paths, shared_object) = 0 THEN <<>>
        ELSE SelectSeq(ElfDependencies(s, shared_object), NotIgnored)

\* the interpreter ends a recursion deeper than its limit with RecursionError
RecursionError == [ok |-> FALSE, libs |-> <<>>]

\* find_shared_objects called at the given depth of the call stack
RECURSIVE FindSharedObjectsAt(_, _, _, _, _)
FindSharedObjectsAt(s, shared_objects, ld_library_paths, ignored_dependencies, depth) ==
    IF depth > RecursionLimit THEN RecursionError
    ELSE
        LET ret[i \in 0..Len(shared_objects)] ==
                IF i = 0 THEN [ok |-> TRUE, libs |-> <<>>]
                ELSE IF ~ret[i - 1].ok THEN RecursionError
                ELSE LET dependencies ==
                             FindSharedObjectDependencies(
                                 s, shared_objects[i], ld_library_paths, ignored_dependencies)
                         below ==
                             FindSharedObjectsAt(
                                 s, dependencies, ld_library_paths, ignored_dependencies, depth + 1)
                     IN  IF ~below.ok THEN RecursionError
                         ELSE [ok |-> TRUE,
                               libs |-> ret[i - 1].libs \o <<shared_objects[i]>> \o below.libs]
            all == ret[Len(shared_objects)]
        IN  IF ~all.ok THEN RecursionError
            ELSE [ok |-> TRUE, libs |-> SortedSet(all.libs)]

FindSharedObjects(s, shared_objects, ld_library_paths, ignored_dependencies) ==
    FindSharedObjectsAt(s, shared_objects, ld_library_paths, ignored_dependencies, 1)

-----------------------------------------------------------------------------
(* The staging tree.                                                        *)

\* permission bits of a file made by open() or shutil.copyfile under umask 022
DefaultMode == 420

\* a file of the staging tree: where its bytes come from and its permission bits
Staged(data, mode) == [data |-> data, mode |-> mode]

\* os.path.exists(os.path.join(path, name)) in the staging tree: a file of that
\* name, or a directory that holds files
StagedFile(stg, name) == name \in DOMAIN stg
StagedDir(stg, name) == \E p \in DOMAIN stg : StartsWith(p, name \o <<"/">>)

\* writes of files into the tree; a file written again is overwritten
WriteFiles(stg, files) ==
    [p \in DOMAIN stg \cup DOMAIN files |-> IF p \in DOMAIN files THEN files[p] ELSE stg[p]]

-----------------------------------------------------------------------------
(* The local source installer: install_local_package.                       *)

TxtPyExt == <<".","p","y">>
TxtInitPy == <<"/","_","_","i","n","i","t","_","_",".","p","y">>
TxtYaml == <<"_","y","a","m","l">>
TxtCffiBackend == <<"_","c","f","f","i","_","b","a","c","k","e","n","d">>
TxtOpenssl == <<"_","o","p","e","n","s","s","l">>
TxtPadding == <<"_","p","a","d","d","i","n","g">>
TxtConstantTime == <<"_","c","o","n","s","t","a","n","t","_","t","i","m","e">>
TxtPvectorc == <<"p","v","e","c","t","o","r","c">>
TxtDist == <<"d","i","s","t">>
TxtXmlsecDot == <<"x","m","l","s","e","c",".">>
TxtSoExt == <<".","s","o">>

\* the libraries install_local_package adds for xmlsec
XmlsecSharedObjects ==
    << <<"l","i","b","x","m","l","s","e","c","1","-","o","p","e","n","s","s","l",".","s","o">>, <<"l","i","b","x","m","l","s","e","c","1",".","s","o">>, <<"l","i","b","x","m","l","s","e","c","1","-","o","p","e","n","s","s","l",".","s","o",".","1">>,
       <<"l","i","b","x","m","l","s","e","c","1",".","s","o",".","1">>, <<"l","i","b","x","m","l","2",".","s","o">>, <<"l","i","b","c","r","y","p","t","o",".","s","o">>, <<"l","i","b","x","s","l","t",".","s","o">>,
       <<"l","i","b","i","c","u","u","c",".","s","o">>, <<"l","i","b","i","c","u","d","a","t","a",".","s","o">> >>

\* the libraries install_local_package adds for python-magic
PythonMagicSharedObjects == << <<"l","i","b","m","a","g","i","c",".","s","o",".","1">> >>

\* the directory the packager runs in
Cwd == <<"/","w">>

\* os.path.realpath of a relative path without links
Realpath(p) == Cwd \o <<"/">> \o p

\* os.path.commonprefix([a, b]): the longest common leading run of characters
CommonPrefix(a, b) ==
    LET same == {k \in 0..Len(a) : k <= Len(b) /\ SubSeq(a, 1, k) = SubSeq(b, 1, k)}
    IN  SubSeq(a, 1, CHOOSE k \in same : \A j \in same : j <= k)

IsPathCommonToAny(path, parents) ==
    /\ Len(parents) > 0
    /\ LET current_path_abs == Realpath(path) \o <<"/">>
       IN  \E i \in 1..Len(parents) :
               CommonPrefix(current_path_abs, Realpath(parents[i])) = Realpath(parents[i])

\* glob.glob(location + "/xmlsec.*.so"): the names found, in sorted order
GlobXmlsec(loc) ==
    SortTexts({n \in DOMAIN loc.tree :
                  /\ Len(n) >= Len(TxtXmlsecDot) + Len(TxtSoExt)
                  /\ StartsWith(n, TxtXmlsecDot)
                  /\ EndsWith(n, TxtSoExt)
                  /\ "/" \notin Range(n)})

\* the NEEDED entries of the files module_path.rglob(line + ".*.so") finds
ExtensionModules(loc, line) == IF line \in DOMAIN loc.ext THEN loc.ext[line] ELSE <<>>

\* shared_objects after the loops over found_path and elf_dependency
RECURSIVE AppendUnlessIgnored(_, _)
AppendUnlessIgnored(shared_objects, elf_dependencies) ==
    IF elf_dependencies = <<>> THEN shared_objects
    ELSE LET d == Head(elf_dependencies)
         IN  AppendUnlessIgnored(
                 IF IsIgnoredSharedObject(d, IgnoredSharedObjects) \/ d \in Range(shared_objects)
                 THEN shared_objects
                 ELSE Append(shared_objects, d),
                 Tail(elf_dependencies))

RECURSIVE Flatten(_)
Flatten(ss) == IF ss = <<>> THEN <<>> ELSE Head(ss) \o Flatten(Tail(ss))

\* one pass of the loop over the lines of top_level.txt
TopLevelLine(dep, loc, acc, raw) ==
    LET line == Strip(raw, Whitespace)
        found == IF dep.key = KeyCryptography
                 THEN AppendUnlessIgnored(acc.shared_objects, Flatten(ExtensionModules(loc, line)))
                 ELSE acc.shared_objects
        kept == IF IsPathCommonToAny(line, acc.to_copy) THEN acc.to_copy
                ELSE Append(acc.to_copy, line)
    IN  IF line = <<>> THEN acc
        ELSE IF dep.key = KeyPyyaml /\ line = TxtYaml THEN acc
        ELSE IF dep.key = KeyCffi /\ line = TxtCffiBackend THEN acc
        ELSE IF dep.key = KeyCryptography /\ line \in {TxtOpenssl, TxtPadding, TxtConstantTime}
             THEN [acc EXCEPT !.shared_objects = found]
        ELSE IF dep.key = KeyPyrsistent /\ line = TxtPvectorc
             THEN [acc EXCEPT !.shared_objects = found]
        ELSE IF dep.key = KeySetuptools /\ line = TxtDist
             THEN [acc EXCEPT !.shared_objects = found]
        ELSE [to_copy |-> kept,
              to_find |-> IF dep.key = KeyXmlsec /\ line = KeyXmlsec
                          THEN Append(acc.to_find, TxtXmlsecDot) ELSE acc.to_find,
              shared_objects |->
                  found
                  \o (IF dep.key = KeyXmlsec /\ line = KeyXmlsec
                      THEN XmlsecSharedObjects ELSE <<>>)
                  \o (IF dep.key = KeyPythonMagic THEN PythonMagicSharedObjects ELSE <<>>)]

\* to_copy, to_find and shared_objects after top_level.txt has been read
ReadTopLevel(dep, loc) ==
    LET acc[i \in 0..Len(loc.top_level)] ==
            IF i = 0 THEN [to_copy |-> <<>>, to_find |-> <<>>, shared_objects |-> <<>>]
            ELSE TopLevelLine(dep, loc, acc[i - 1], loc.top_level[i])
    IN  acc[Len(loc.top_level)]

\* to_copy after "locate any findables"
WithFindables(loc, acc) ==
    acc.to_copy \o (IF acc.to_find = <<>> THEN <<>> ELSE GlobXmlsec(loc))

\* one pass of "copy each found folder into our output": the staging tree after
\* it, or the exception it raises
\* the files of an installed package directory that shutil.copytree copies:
\* __init__.py, and __init__.pyc next to it where the interpreter compiled it
\* there; __pycache__ is left out by ignore_patterns(*IGNORED)
TxtInitPyc == <<"/","_","_","i","n","i","t","_","_",".","p","y","c">>

FilesOfFolder(loc) == IF loc.compiled THEN {TxtInitPy, TxtInitPyc} ELSE {TxtInitPy}

CopyFolder(dep, loc, st, folder) ==
    LET as_py  == folder \notin DOMAIN loc.tree /\ (folder \o TxtPyExt) \in DOMAIN loc.tree
        source == IF as_py THEN folder \o TxtPyExt ELSE folder
        copy_to == source
        isfile == source \in DOMAIN loc.tree /\ loc.tree[source].kind = "file"
    IN  IF st.raised # "none" THEN st
        ELSE IF isfile
        THEN IF StagedDir(st.staging, copy_to)
             THEN [st EXCEPT !.raised = "IsADirectoryError"]
             ELSE [st EXCEPT !.staging =
                      WriteFiles(@, [p \in {copy_to} |-> Staged(<<"local", dep.key>>, DefaultMode)])]
        ELSE IF source \notin DOMAIN loc.tree
        THEN [st EXCEPT !.raised = "FileNotFoundError"]
        ELSE IF StagedDir(st.staging, copy_to) \/ StagedFile(st.staging, copy_to)
        THEN [st EXCEPT !.raised = "FileExistsError"]
        ELSE [st EXCEPT !.staging =
                 WriteFiles(@, [p \in {copy_to \o name : name \in FilesOfFolder(loc)} |->
                                   Staged(<<"local", dep.key>>, loc.tree[source].mode)])]

CopyFolders(dep, loc, stg, to_copy) ==
    LET st[i \in 0..Len(to_copy)] ==
            IF i = 0 THEN [staging |-> stg, raised |-> "none"]
            ELSE CopyFolder(dep, loc, st[i - 1], to_copy[i])
    IN  st[Len(to_copy)]

\* one pass of the loop over the closure: the library copied from the first
\* search path that holds it, or the exception raised
CopySharedObject(s, ld_library_paths, st, shared_object) ==
    LET first == FirstPathHolding(s, ld_library_paths, shared_object)
    IN  IF st.raised # "none" THEN st
        ELSE IF ld_library_paths = <<>>
        THEN [st EXCEPT !.raised = "ld_library_paths is empty"]
        ELSE IF first = 0
        THEN [st EXCEPT !.raised = "unable to find shared object",
                        !.missing = shared_object]
        ELSE [st EXCEPT !.staging =
                 WriteFiles(@, [p \in {shared_object} |->
                                   Staged(<<"lib", ld_library_paths[first]>>, DefaultMode)])]

CopySharedObjects(s, ld_library_paths, stg, closure) ==
    LET st[i \in 0..Len(closure)] ==
            IF i = 0 THEN [staging |-> stg, raised |-> "none", missing |-> <<>>]
            ELSE CopySharedObject(s, ld_library_paths, st[i - 1], closure[i])
    IN  st[Len(closure)]

\* s contains sub as a run of characters
Contains(s, sub) ==
    \E i \in 1..(Len(s) - Len(sub) + 1) : SubSeq(s, i, i + Len(sub) - 1) = sub

TxtPycache == <<"_","_","p","y","c","a","c","h","e","_","_">>
TxtGit == <<".","g","i","t">>

\* fnmatch.fnmatch(name, ignored) for some pattern of IGNORED
MatchesIgnored(name) ==
    \E d \in {TxtPycache, TxtGit} :
        \/ name = d
        \/ StartsWith(name, d \o <<"/">>)
        \/ \E i \in 1..Len(name) :
              /\ i > 1
              /\ StartsWith(SubSeq(name, i, Len(name)), <<"/">> \o d \o <<"/">>)

\* the lines of EGG-INFO/top_level.txt that install_local_package_from_egg keeps
RECURSIVE StrippedLines(_)
StrippedLines(lines) ==
    IF lines = <<>> THEN <<>>
    ELSE LET line == Strip(Head(lines), Whitespace)
         IN  (IF line = <<>> THEN <<>> ELSE <<line>>) \o StrippedLines(Tail(lines))

\* names_to_copy of install_local_package_from_egg for one folder
EggNamesToCopy(all_names, folder) ==
    LET maybe == {n \in all_names : StartsWith(n, folder \o <<"/">>) \/ n = folder \o TxtPyExt}
    IN  {n \in maybe :
            /\ ~MatchesIgnored(n)
            /\ (~EndsWith(n, TxtPyExt) \/ (n \o <<"c">>) \notin maybe)}

InstallLocalPackageFromEgg(dep, loc, stg) ==
    IF ~loc.egg.top_level_txt
    THEN [raised |-> "KeyError", staging |-> stg]
    ELSE LET to_copy == StrippedLines(loc.egg.top_level)
             names == UNION {EggNamesToCopy(loc.egg.names, to_copy[i]) : i \in 1..Len(to_copy)}
         IN  [raised |-> "none",
              staging |-> WriteFiles(stg, [p \in names |-> Staged(<<"egg", dep.key>>, DefaultMode)])]

\* what install_local_package leaves behind: the exception it raised if any, or
\* else the value it returned (every return statement returns True), the staging
\* tree, and its locals
LocalResult(raised, stg, to_copy, shared_objects, ld_library_paths, closure, missing) ==
    [rv |-> TRUE, raised |-> raised, staging |-> stg, to_copy |-> to_copy,
     shared_objects |-> shared_objects, ld_library_paths |-> ld_library_paths,
     closure |-> closure, missing |-> missing]

\* the part of install_local_package that follows "if shared_objects:"
InstallSharedObjects(s, stg, to_copy, shared_objects) ==
    LET ld_library_paths == LdLibraryPaths(s.ldconfig)
        found == FindSharedObjects(s, shared_objects, ld_library_paths, IgnoredSharedObjects)
        copied == CopySharedObjects(s, ld_library_paths, stg, found.libs)
    IN  IF ~found.ok
        THEN LocalResult("RecursionError", stg, to_copy, shared_objects, ld_library_paths, <<>>, <<>>)
        ELSE LocalResult(copied.raised, copied.staging, to_copy, shared_objects,
                         ld_library_paths, found.libs, copied.missing)

\* the part of install_local_package for a location that is a directory
InstallFromDirectory(dep, loc, s, stg) ==
    LET acc == IF loc.sidecar THEN ReadTopLevel(dep, loc)
               ELSE [to_copy |-> <<dep.key>>, to_find |-> <<>>, shared_objects |-> <<>>]
        to_copy == WithFindables(loc, acc)
        copied == CopyFolders(dep, loc, stg, to_copy)
    IN  IF ~loc.sidecar /\ dep.key \notin DOMAIN loc.tree
        THEN LocalResult("top_level.txt was not found", stg, <<>>, <<>>, <<>>, <<>>, <<>>)
        ELSE IF copied.raised # "none"
        THEN LocalResult(copied.raised, copied.staging, to_copy, acc.shared_objects, <<>>, <<>>, <<>>)
        ELSE IF acc.shared_objects = <<>>
        THEN LocalResult("none", copied.staging, to_copy, <<>>, <<>>, <<>>, <<>>)
        ELSE InstallSharedObjects(s, copied.staging, to_copy, acc.shared_objects)

\* install_local_package(path, dependency), the dependency's location being loc
RunInstallLocalPackage(dep, loc, s, stg) ==
    LET egg == InstallLocalPackageFromEgg(dep, loc, stg)
        from_egg == LocalResult(egg.raised, egg.staging, <<>>, <<>>, <<>>, <<>>, <<>>)
    IN  IF loc.kind = "file"
        THEN IF loc.dot_egg THEN from_egg
             ELSE LocalResult("Unable to install local package", stg, <<>>, <<>>, <<>>, <<>>, <<>>)
        ELSE IF loc.kind = "dir"
        THEN IF loc.egg_zip THEN from_egg ELSE InstallFromDirectory(dep, loc, s, stg)
        ELSE LocalResult("neither a file nor a directory", stg, <<>>, <<>>, <<>>, <<>>, <<>>)

\* the exceptions of install_local_package whose message names the dependency
NamesDependency(raised) ==
    raised \in {"Unable to install local package", "top_level.txt was not found",
                "neither a file nor a directory"}

-----------------------------------------------------------------------------
(* What the run meets: the package index, wheels, local installations, the  *)
(* build machine.                                                           *)

TxtUrlPrefix == <<"h","t","t","p","s",":","/","/","f","/">>
TxtTarGz == <<".","t","a","r",".","g","z">>
TxtWinWheel == <<"-","c","p","3","7","-","c","p","3","7","m","-","w","i","n","_","a","m","d","6","4",".","w","h","l">>
TxtLinuxWheel == <<"-","c","p","3","7","-","c","p","3","7","m","-","m","a","n","y","l","i","n","u","x","1","_","x","8","6","_","6","4",".","w","h","l">>
TxtAnyWheel == <<"-","p","y","2",".","p","y","3","-","n","o","n","e","-","a","n","y",".","w","h","l">>
\* the tags of a wheel that carries the build tag 1
TxtSecondBuildWheel == <<"-","1","-","p","y","2",".","p","y","3","-","n","o","n","e","-","a","n","y",".","w","h","l">>

\* the name part of the files a project publishes: "-" as "_"
FileStem(dep, version) == ReplaceChar(dep.key, "-", "_") \o <<"-">> \o version

SdistUrl(dep, version) == TxtUrlPrefix \o dep.key \o <<"-">> \o version \o TxtTarGz
WheelUrl(dep, version, tag) == TxtUrlPrefix \o FileStem(dep, version) \o tag

\* answers of https://pypi.python.org/pypi/<name>/json; releases maps a version
\* to the urls of its files
IndexResponses(dep) ==
    { [status |-> "unreachable", releases |-> <<>>],
      [status |-> "404", releases |-> <<>>],
      [status |-> "500", releases |-> <<>>],
      [status |-> "200", releases |-> <<>>],
      [status |-> "200", releases |-> (Version20 :> <<WheelUrl(dep, Version20, TxtAnyWheel)>>)],
      [status |-> "200", releases |-> (dep.version :> <<SdistUrl(dep, dep.version)>>)],
      [status |-> "200", releases |-> (dep.version :> <<SdistUrl(dep, dep.version),
                                                     WheelUrl(dep, dep.version, TxtWinWheel)>>)],
      [status |-> "200", releases |-> (dep.version :> <<SdistUrl(dep, dep.version),
                                                     WheelUrl(dep, dep.version, TxtAnyWheel),
                                                     WheelUrl(dep, dep.version, TxtLinuxWheel)>>)],
      [status |-> "200", releases |-> (dep.version :> <<WheelUrl(dep, dep.version, TxtSecondBuildWheel)>>)] }

\* how the GET of the artifact ends
DownloadOutcomes == {"ok", "http_error", "interrupted"}

\* the files a wheel unpacks to: one module under the name the file starts with
WheelTopLevel(file) ==
    LET dashes == {i \in 1..Len(file) : file[i] = "-"}
    IN  IF dashes = {} THEN file
        ELSE SubSeq(file, 1, (CHOOSE i \in dashes : \A j \in dashes : i <= j) - 1)

WheelContents(file) ==
    [p \in {Lower(WheelTopLevel(file)) \o TxtInitPy} |-> Staged(<<"wheel", file>>, DefaultMode)]

\* the url download_and_install_manylinux_version settles on, or None
FindUrl(infos, wheel_suffixes) ==
    LET matching(i) == {j \in 1..Len(infos) : EndsWith(infos[j], wheel_suffixes[i])}
        hits == {i \in 1..Len(wheel_suffixes) : matching(i) # {}}
        first == CHOOSE i \in hits : \A k \in hits : i <= k
    IN  IF hits = {} THEN None
        ELSE infos[CHOOSE j \in matching(first) : \A k \in matching(first) : j <= k]

LibA == <<"l","i","b","a",".","s","o",".","1">>
LibB == <<"l","i","b","b",".","s","o",".","1">>
LibC6 == <<"l","i","b","c",".","s","o",".","6">>
LibZ1 == <<"l","i","b","z",".","s","o",".","1">>
LdLinux == <<"l","d","-","l","i","n","u","x","-","x","8","6","-","6","4",".","s","o",".","2">>
DirLib == <<"/","l","i","b">>
DirUsrLib == <<"/","u","s","r","/","l","i","b">>

\* lines of `ldconfig -v`
LdconfigLib == <<"/","l","i","b",":","\n">>
LdconfigUsrLib == <<"/","u","s","r","/","l","i","b",":","\n">>
LdconfigEntry == <<"\t","l","i","b","a",".","s","o",".","1"," ","-",">"," ","l","i","b","a",".","s","o",".","1",".","0","\n">>

\* a file or directory under a dependency's location
Entry(kind, mode) == [kind |-> kind, mode |-> mode]

NoEgg == [top_level_txt |-> FALSE, top_level |-> <<>>, names |-> {}]

\* a dependency's location: a directory with a top_level.txt listing the lines
Directory(lines, tree, ext) ==
    [kind |-> "dir", dot_egg |-> FALSE, egg_zip |-> FALSE, sidecar |-> TRUE,
     top_level |-> lines, tree |-> tree, ext |-> ext, egg |-> NoEgg, compiled |-> FALSE]

\* such a directory of an interpreter that writes .pyc files next to .py files
Compiled(location) == [location EXCEPT !.compiled = TRUE]

\* a directory in which _locate_top_level finds no top_level.txt
BareDirectory(tree) == [Directory(<<>>, tree, <<>>) EXCEPT !.sidecar = FALSE]

\* a location that is an .egg file, or a file of another name, or nothing
EggFile(egg) == [Directory(<<>>, <<>>, <<>>) EXCEPT !.kind = "file", !.dot_egg = TRUE, !.egg = egg]
OtherFile == [Directory(<<>>, <<>>, <<>>) EXCEPT !.kind = "file"]
Nowhere == [Directory(<<>>, <<>>, <<>>) EXCEPT !.kind = "absent"]

Line(text) == text \o <<"\n">>

\* the module a project installs: its key with "-" as "_"
ModuleName(dep) == ReplaceChar(dep.key, "-", "_")

\* locations of an installed dependency
LocalInstalls(dep) ==
    { Directory(<<Line(ModuleName(dep))>>, (ModuleName(dep) :> Entry("dir", 493)), <<>>),
      Directory(<<Line(ModuleName(dep)), <<"\n">>>>,
                ((ModuleName(dep) \o TxtPyExt) :> Entry("file", 384)), <<>>),
      Directory(<<Line(ModuleName(dep))>>, <<>>, <<>>),
      Compiled(Directory(<<Line(ModuleName(dep))>>, (ModuleName(dep) :> Entry("dir", 493)), <<>>)),
      BareDirectory((dep.key :> Entry("dir", 420))),
      BareDirectory(<<>>),
      EggFile([top_level_txt |-> TRUE, top_level |-> <<Line(ModuleName(dep))>>,
               names |-> {ModuleName(dep) \o TxtInitPy, ModuleName(dep) \o TxtInitPy \o <<"c">>,
                          ModuleName(dep) \o <<"/","d","a","t","a",".","t","x","t">>}]),
      EggFile(NoEgg),
      OtherFile,
      Nowhere }

TxtCryptography == KeyCryptography
TxtMagic == <<"m","a","g","i","c">>
TxtMagicCompat == <<"m","a","g","i","c","_","c","o","m","p","a","t">>
TxtXmlsecSo == <<"x","m","l","s","e","c",".","c","p","y","t","h","o","n","-","3","7","m","-","x","8","6","_","6","4","-","l","i","n","u","x","-","g","n","u",".","s","o">>
LibMagic == <<"l","i","b","m","a","g","i","c",".","s","o",".","1">>
LibXmlsecOpenssl == <<"l","i","b","x","m","l","s","e","c","1","-","o","p","e","n","s","s","l",".","s","o">>
LibXmlsec == <<"l","i","b","x","m","l","s","e","c","1",".","s","o">>
LibCrypto == <<"l","i","b","c","r","y","p","t","o",".","s","o">>

\* cryptography installed in a directory; its _openssl extension module has
\* the given NEEDED entries
CryptographyInstalls(needed_lists) ==
    { Directory(<<Line(TxtCryptography), Line(TxtOpenssl)>>,
                (TxtCryptography :> Entry("dir", 493)),
                (TxtOpenssl :> <<n>>)) : n \in needed_lists }

PythonMagicInstalls ==
    { Directory(<<Line(TxtMagic)>>, (TxtMagic :> Entry("dir", 493)), <<>>),
      Directory(<<Line(TxtMagic), Line(TxtMagicCompat)>>,
                (TxtMagic :> Entry("dir", 493)) @@ ((TxtMagicCompat \o TxtPyExt) :> Entry("file", 420)),
                <<>>),
      BareDirectory((KeyPythonMagic :> Entry("dir", 493))) }

XmlsecInstalls ==
    { Directory(<<Line(KeyXmlsec)>>,
                (KeyXmlsec :> Entry("dir", 493)) @@ (TxtXmlsecSo :> Entry("file", 493)),
                <<>>) }

\* the libraries of the build machine that the model names
Libraries ==
    {LibA, LibB, LibC6, LibZ1, LdLinux, LibMagic} \cup Range(XmlsecSharedObjects)

\* the libraries a distribution installs next to each other under /usr/lib
SystemFiles == {<<DirUsrLib, l>> : l \in Libraries \ {LibA, LibB}}

\* NEEDED entries of the libraries, those of liba and libb being given
Needed(of_a, of_b) ==
    [l \in Libraries |->
        IF l = LibA THEN of_a
        ELSE IF l = LibB THEN of_b
        ELSE IF l = LibMagic THEN <<LibZ1, LibC6>>
        ELSE IF l = LibXmlsecOpenssl THEN <<LibXmlsec, LibCrypto, LibC6>>
        ELSE IF l \in {LibC6, LdLinux} THEN <<>>
        ELSE <<LibC6>>]

System(ldconfig, files, needed) == [ldconfig |-> ldconfig, files |-> files, needed |-> needed]

LdconfigOutputs ==
    { <<>>, <<LdconfigLib, LdconfigEntry>>, <<LdconfigLib, LdconfigEntry, LdconfigUsrLib>> }

\* build machines: liba in /lib, in /lib and /usr/lib, or absent; libb in
\* /usr/lib or absent; the NEEDED lists of liba over liba, libb and libc, those
\* of libb over liba and libc
Systems ==
    { System(out, SystemFiles \cup {<<d, LibA>> : d \in dirs_a} \cup {<<d, LibB>> : d \in dirs_b},
             Needed(of_a, of_b)) :
        out \in LdconfigOutputs,
        dirs_a \in {{}, {DirLib}, {DirLib, DirUsrLib}},
        dirs_b \in SUBSET {DirUsrLib},
        of_a \in SeqsNoRep({LibA, LibB, LibC6}, MaxNeeded),
        of_b \in SeqsNoRep({LibA, LibC6}, MaxNeeded) }

\* the build machine of the installer's runs: liba in /lib needs libc
MainSystem ==
    System(<<LdconfigLib, LdconfigEntry, LdconfigUsrLib>>,
           SystemFiles \cup {<<DirLib, LibA>>}, Needed(<<LibC6>>, <<>>))

\* a dependency whose top_level.txt lists several members
KeyAttrs == <<"a","t","t","r","s">>
TxtAttr == <<"a","t","t","r">>
TxtAttrSub == <<"a","t","t","r","/","s","u","b">>

\* the members its top_level.txt may list, each of them a folder of the location
AttrsMembers == {TxtAttr, KeyAttrs, TxtAttrSub}

\* its locations: one for every list of members without repetition
AttrsInstalls ==
    { Directory([n \in 1..Len(members) |-> Line(members[n])],
                [m \in AttrsMembers |-> Entry("dir", 493)], <<>>) :
        members \in SeqsNoRep(AttrsMembers, Cardinality(AttrsMembers)) }

\* where a dependency may be found installed
LocationsOf(dep) ==
    IF dep.key = KeyCryptography
    THEN CryptographyInstalls(SeqsNoRep({LibA, LibB, LibC6}, MaxStart))
    ELSE IF dep.key = KeyPythonMagic THEN PythonMagicInstalls
    ELSE IF dep.key = KeyXmlsec THEN XmlsecInstalls
    ELSE IF dep.key = KeyAttrs THEN AttrsInstalls
    ELSE LocalInstalls(dep)

-----------------------------------------------------------------------------
(* The state machine: install_dependencies and the cascade.                 *)

Dependencies == {Dep(KeyApp), Dep(KeyFooBar), Dep(KeyCryptography)}

Runtimes == {RuntimePython37, RuntimePython27, RuntimePython37NoDot}

\* files a cache directory may hold before the run
CachedBefore ==
    { FileStem(Dep(KeyFooBar), Version10) \o TxtAnyWheel,
      FileStem(Dep(KeyCryptography), Version10) \o TxtAnyWheel }

NoDep == [key |-> <<>>, version |-> <<>>]
NoLocal == [dep |-> NoDep]
NoProbe == [applied |-> 0]

\* the arguments of package that the installers do not look at
Options(type, prefer_pyc, file_object) ==
    [type |-> type, prefer_pyc |-> prefer_pyc, file_object |-> file_object]

\* a destination nothing has been written to
Untouched == [state |-> "untouched", entries |-> <<>>]

\* a run whose dependencies were given to it: the working set is not looked at
NoWorkingSet == <<>>

\* the other run has not reached its download
PeerAtStart == [at |-> "start"]

\* a run at the given place, nothing installed yet
StartedWith(p, rt, dl, ds, c, s, stg, at, opts, order, ws) ==
    /\ package = p
    /\ runtime = rt
    /\ download = dl
    /\ deps = ds
    /\ cache = c
    /\ sys = s
    /\ staging = stg
    /\ idx = 1
    /\ pc = at
    /\ attempts = [i \in 1..Len(ds) |-> <<>>]
    /\ requests = [i \in 1..Len(ds) |-> <<>>]
    /\ installed = [m \in Methods |-> <<>>]
    /\ error = NoError
    /\ local = NoLocal
    /\ archive = <<>>
    /\ probe = NoProbe
    /\ options = opts
    /\ temp_path = "exists"
    /\ destination = Untouched
    /\ earlier = <<>>
    /\ listing = order
    /\ working_set = ws
    /\ peer = PeerAtStart

\* a run of type "plain" with prefer_pyc=True and a path as destination, on a
\* file system that lists names in ascending order
Started(p, rt, dl, ds, c, s, stg, at) ==
    StartedWith(p, rt, dl, ds, c, s, stg, at, Options("plain", TRUE, FALSE), "ascending",
                NoWorkingSet)

\* a run about to enter install_dependencies, the staging tree empty
Ready(p, rt, dl, ds, c, s) == Started(p, rt, dl, ds, c, s, <<>>, "loop")

Init ==
    \E rt \in Runtimes, dl \in BOOLEAN, ds \in SeqsNoRep(Dependencies, MaxDeps),
       present \in SUBSET CachedBefore :
        Ready(KeyApp, rt, dl, ds, [f \in present |-> Zip], MainSystem)

\* the dependency install_dependencies is at
Current == deps[idx]

\* a strategy tried for a dependency: "True" or "False" as it returned, or
\* "raised", and why
Attempt(strategy, outcome, why) == [strategy |-> strategy, outcome |-> outcome, why |-> why]

\* an exception that ends the run: its kind, the function that raised it, and
\* the dependency its message names (NoDep when it names none)
Raised(kind, site, named) == [kind |-> kind, site |-> site, named |-> named]

\* _mangle_package: the staging tree after it, or the exception it raises
TxtRedshiftInit == <<"s","q","l","a","l","c","h","e","m","y","_","r","e","d","s","h","i","f","t","/","_","_","i","n","i","t","_","_",".","p","y">>

ManglePackage(stg, dep) ==
    IF dep.key # KeySqlalchemyRedshift THEN [raised |-> "none", staging |-> stg]
    ELSE IF TxtRedshiftInit \notin DOMAIN stg THEN [raised |-> "FileNotFoundError", staging |-> stg]
    ELSE [raised |-> "none",
          staging |-> [stg EXCEPT ![TxtRedshiftInit].data = <<"mangled", dep.version>>]]

\* a mutant of IsRootPackage: no dependency is taken for the root package
IsRootPackageNever(dependency, p) == FALSE

\* "if dependency.key == package: continue"
IsRootPackage(dependency, p) == dependency.key = p

\* the head of install_dependencies' loop
NextDependency ==
    /\ pc = "loop"
    /\ IF idx > Len(deps) THEN pc' = "installed" /\ idx' = idx
       ELSE IF IsRootPackage(Current, package) THEN pc' = "loop" /\ idx' = idx + 1
       ELSE pc' = "cached" /\ idx' = idx
    /\ UNCHANGED <<given, peer, temp_path, destination, earlier, cache, staging, attempts, requests, installed, error, local,
                   archive, probe>>

\* a mutant of Truthy: the value a strategy returned is not looked at
TruthyNever(rv) == FALSE

\* "if rv:" of _install_dependency
Truthy(rv) == rv

\* a strategy returned and _install_dependency returns its method:
\* _mangle_package, then install_dependencies files the dependency and goes on
Return(method, why, stg) ==
    LET mangled == ManglePackage(stg, Current)
    IN  /\ attempts' = [attempts EXCEPT ![idx] = Append(@, Attempt(method, "True", why))]
        /\ staging' = mangled.staging
        /\ IF mangled.raised # "none"
           THEN /\ pc' = "failed"
                /\ error' = Raised(mangled.raised, "_mangle_package", NoDep)
                /\ UNCHANGED <<installed, idx>>
           ELSE /\ pc' = "loop"
                /\ idx' = idx + 1
                /\ installed' = [installed EXCEPT ![method] = Append(@, Current)]
                /\ error' = error

\* a strategy returned and the cascade goes on at the given statement
Continue(method, rv, why, stg, next) ==
    /\ attempts' = [attempts EXCEPT ![idx] = Append(@, Attempt(method, IF rv THEN "True" ELSE "False", why))]
    /\ staging' = stg
    /\ pc' = next
    /\ UNCHANGED <<installed, idx, error>>

\* a strategy raised: the run ends
Abort(method, why, stg, err) ==
    /\ attempts' = [attempts EXCEPT ![idx] = Append(@, Attempt(method, "raised", why))]
    /\ staging' = stg
    /\ pc' = "failed"
    /\ error' = err
    /\ UNCHANGED <<installed, idx>>

\* what a strategy does: the value it returns or the exception it raises, why,
\* and the staging tree, the cache and the network requests it leaves behind
Outcome(rv, raised, why, stg, c, reqs) ==
    [rv |-> rv, raised |-> raised, why |-> why, staging |-> stg, cache |-> c, requests |-> reqs]

\* a mutant of IsExemptFromCache: no name is exempt
IsExemptFromCacheNever(dep) == FALSE

\* install_manylinux_version: the one name that it refuses before it looks
\* at the cache
IsExemptFromCache(dep) == dep.key = KeyCryptography

\* install_manylinux_version: the outcomes it can have
RunInstallManylinuxVersion(dep, rt, c, stg) ==
    IF IsExemptFromCache(dep)
    THEN {Outcome(FALSE, "none", "exempt", stg, c, <<>>)}
    ELSE IF ~RuntimeParses(rt)
    THEN {Outcome(FALSE, "ValueError", "runtime", stg, c, <<>>)}
    ELSE LET paths == FoundWheelPaths(c, dep, GetWheelSuffixes(rt))
         IN  IF paths = {}
             THEN {Outcome(FALSE, "none", "not cached", stg, c, <<>>)}
             ELSE {IF c[wheel_path] = Zip
                   THEN Outcome(TRUE, "none", "cached", WriteFiles(stg, WheelContents(wheel_path)), c, <<>>)
                   ELSE Outcome(FALSE, "BadZipFile", "cached", stg, c, <<>>) : wheel_path \in paths}

\* the cache directory after open(wheel_path, "wb") and what was written to it
WithFile(c, file, content) ==
    [f \in DOMAIN c \cup {file} |-> IF f = file THEN content ELSE c[f]]

\* a mutant of IsNotFound: a 404 of the index is an error like any other
IsNotFoundNever(res) == FALSE

\* "if res.status_code == 404"
IsNotFound(res) == res.status = "404"

\* a mutant of ArtifactError: a failed download of the artifact raises nothing
ArtifactErrorSwallowed(got) == "none"

\* the exception with which the download of the artifact ends when it fails:
\* raise_for_status for an error status, requests' own for a broken connection
ArtifactError(got) == IF got = "http_error" THEN "HTTPError" ELSE "ConnectionError"

\* download_and_install_manylinux_version once the index has answered
AfterIndexAnswer(dep, rt, c, stg, res) ==
    LET infos == res.releases[dep.version]
        url == FindUrl(infos, GetWheelSuffixes(rt))
        wheel_name == Basename(url)
        index == <<[to |-> "index", answer |-> res]>>
        both(got) == Append(index, [to |-> "artifact", answer |-> got])
    IN  IF res.status = "unreachable"
        THEN {Outcome(FALSE, "ConnectionError", "index", stg, c, index)}
        ELSE IF IsNotFound(res)
        THEN {Outcome(FALSE, "none", "404", stg, c, index)}
        ELSE IF res.status # "200"
        THEN {Outcome(FALSE, "HTTPError", "index", stg, c, index)}
        ELSE IF ~RuntimeParses(rt)
        THEN {Outcome(FALSE, "ValueError", "runtime", stg, c, index)}
        ELSE IF dep.version \notin DOMAIN res.releases
        THEN {Outcome(FALSE, "none", "no version", stg, c, index)}
        ELSE IF url = None
        THEN {Outcome(FALSE, "none", "no url", stg, c, index)}
        ELSE { IF got # "ok"
               THEN Outcome(FALSE, ArtifactError(got), "artifact", stg,
                            WithFile(c, wheel_name, Truncated), both(got))
               ELSE Outcome(TRUE, "none", "downloaded",
                            WriteFiles(stg, WheelContents(wheel_name)),
                            WithFile(c, wheel_name, Zip), both(got)) : got \in DownloadOutcomes }

\* download_and_install_manylinux_version: the one name that it refuses
\* before it asks the index
IsExemptFromDownload(dep) == dep.key = KeyCryptography

\* download_and_install_manylinux_version: the outcomes it can have
RunDownloadAndInstall(dep, rt, c, stg) ==
    IF IsExemptFromDownload(dep)
    THEN {Outcome(FALSE, "none", "exempt", stg, c, <<>>)}
    ELSE UNION {AfterIndexAnswer(dep, rt, c, stg, res) : res \in IndexResponses(dep)}

\* the statement _install_dependency goes on at when the cache gave nothing
AfterCached(dl) == IF dl THEN "download" ELSE "local"

\* _install_dependency, first strategy
TryCached ==
    /\ pc = "cached"
    /\ \E r \in RunInstallManylinuxVersion(Current, runtime, cache, staging) :
          IF r.raised # "none"
          THEN Abort(InstallManylinuxVersion, r.why, r.staging,
                     Raised(r.raised, "install_manylinux_version", NoDep))
          ELSE IF Truthy(r.rv)
          THEN Return(InstallManylinuxVersion, r.why, r.staging)
          ELSE Continue(InstallManylinuxVersion, r.rv, r.why, r.staging, AfterCached(download))
    /\ UNCHANGED <<given, peer, temp_path, destination, earlier, cache, requests, local, archive, probe>>

\* _install_dependency, second strategy
TryDownload ==
    /\ pc = "download"
    /\ \E r \in RunDownloadAndInstall(Current, runtime, cache, staging) :
          /\ cache' = r.cache
          /\ requests' = [requests EXCEPT ![idx] = @ \o r.requests]
          /\ IF r.raised # "none"
             THEN Abort(DownloadAndInstallManylinuxVersion, r.why, r.staging,
                        Raised(r.raised, "download_and_install_manylinux_version", NoDep))
             ELSE IF Truthy(r.rv)
             THEN Return(DownloadAndInstallManylinuxVersion, r.why, r.staging)
             ELSE Continue(DownloadAndInstallManylinuxVersion, r.rv, r.why, r.staging, "local")
    /\ UNCHANGED <<given, peer, temp_path, destination, earlier, local, archive, probe>>

\* _install_dependency, third strategy, and the raise that follows it
TryLocal ==
    /\ pc = "local"
    /\ \E loc \in LocationsOf(Current) :
          LET r == RunInstallLocalPackage(Current, loc, sys, staging)
          IN  /\ local' = [dep |-> Current, loc |-> loc, result |-> [r EXCEPT !.staging = <<>>]]
              /\ IF r.raised # "none"
                 THEN Abort(InstallLocalPackage, r.raised, r.staging,
                            Raised(r.raised, "install_local_package",
                                   IF NamesDependency(r.raised) THEN Current ELSE NoDep))
                 ELSE IF Truthy(r.rv)
                 THEN Return(InstallLocalPackage, "installed", r.staging)
                 ELSE Abort(InstallLocalPackage, "returned False", r.staging,
                            Raised("Unable to find suitable source", "_install_dependency", Current))
    /\ UNCHANGED <<given, peer, temp_path, destination, earlier, cache, requests, archive, probe>>

Next == NextDependency \/ TryCached \/ TryDownload \/ TryLocal

Spec == Init /\ [][Next]_vars

-----------------------------------------------------------------------------
(* Claims about the cascade.                                                *)

\* the strategies in the order the specification gives them
StrategyRank(strategy) ==
    CASE strategy = InstallManylinuxVersion -> 1
      [] strategy = DownloadAndInstallManylinuxVersion -> 2
      [] strategy = InstallLocalPackage -> 3

\* the strategies tried for the dependency at position i are, in this order,
\* the cache, the download unless downloads are off, the local installation
InCascadeOrder(i) ==
    LET a == attempts[i]
    IN  \A k \in 1..Len(a) :
            /\ StrategyRank(a[k].strategy) = IF download \/ k = 1 THEN k ELSE 3
            /\ \A j \in 1..(k - 1) : a[j].outcome = "False"

\* the dependency at position i is filed under a method exactly when that
\* method's strategy was the one that returned True
FiledUnderFirstSuccess(i) ==
    \A m \in Methods :
        deps[i] \in Range(installed[m]) <=>
            \E k \in 1..Len(attempts[i]) :
                attempts[i][k].strategy = m /\ attempts[i][k].outcome = "True"

\* C1: for every dependency the strategies are tried in the order cache,
\* download, local installation, a later one only after each earlier one (that
\* is not switched off) returned False; the dependency is filed under the
\* method of the first strategy that returned True; and after a cache hit no
\* request was sent for the dependency.
C1_CascadeInOrder ==
    \A i \in 1..Len(deps) :
        /\ InCascadeOrder(i)
        /\ FiledUnderFirstSuccess(i)
        /\ (attempts[i] # <<>> /\ attempts[i][1].outcome = "True") => requests[i] = <<>>

\* one dependency was installed from the cache without a request, and another
\* went through all three strategies and was installed from its location
C1_Witness ==
    \E i, j \in 1..Len(deps) :
        /\ attempts[i] = <<Attempt(InstallManylinuxVersion, "True", "cached")>>
        /\ requests[i] = <<>>
        /\ deps[i] \in Range(installed[InstallManylinuxVersion])
        /\ Len(attempts[j]) = 3
        /\ attempts[j][3].outcome = "True"
        /\ deps[j] \in Range(installed[InstallLocalPackage])

\* every strategy was tried for the dependency at position i and none
\* installed it
AllStrategiesFailed(i) ==
    /\ attempts[i] # <<>>
    /\ attempts[i][Len(attempts[i])].strategy = InstallLocalPackage
    /\ attempts[i][Len(attempts[i])].outcome # "True"

\* C2: when the cache, the download and the local installation all fail for a
\* dependency, the run ends with the error of _install_dependency ("Unable to
\* find suitable source for <key>==<version>") naming that dependency.
C2_AllFailedRaisesUnresolvable ==
    \A i \in 1..Len(deps) :
        AllStrategiesFailed(i) =>
            /\ pc = "failed"
            /\ error = Raised("Unable to find suitable source", "_install_dependency", deps[i])

\* C3: a dependency whose key is the root package is tried by no strategy,
\* causes no request and is filed under no method.
C3_RootNeverInstalled ==
    \A i \in 1..Len(deps) :
        deps[i].key = package =>
            /\ attempts[i] = <<>>
            /\ requests[i] = <<>>
            /\ \A m \in Methods : deps[i] \notin Range(installed[m])

\* the loop has passed the root package and installed another dependency
C3_Witness ==
    /\ pc = "installed"
    /\ \E i, j \in 1..Len(deps) :
          /\ deps[i].key = package
          /\ deps[j] \in Range(installed[InstallLocalPackage])

\* the index's answer gives the download strategy nothing for the dependency:
\* not found, the version not among the releases, or none of the release's
\* urls ending with an accepted suffix
NothingToDownload(dep, res) ==
    \/ res.status = "404"
    \/ /\ res.status = "200"
       /\ \/ dep.version \notin DOMAIN res.releases
          \/ \A u \in Range(res.releases[dep.version]) :
                \A k \in 1..Len(GetWheelSuffixes(runtime)) :
                    ~EndsWith(u, GetWheelSuffixes(runtime)[k])

\* C4: with downloads on and the dependency not cached, an index answer of not
\* found, of no such version or of no matching url makes the download strategy
\* return False without an error, the local installation is tried next, and if
\* that installation raises nothing the dependency is filed under
\* install_local_package.
C4_DownloadMissFallsThrough ==
    \A i \in 1..Len(deps) :
        (/\ requests[i] # <<>>
         /\ NothingToDownload(deps[i], requests[i][1].answer)) =>
            /\ Len(requests[i]) = 1
            /\ Len(attempts[i]) >= 2
            /\ attempts[i][2] \in {Attempt(DownloadAndInstallManylinuxVersion, "False", why) :
                                      why \in {"404", "no version", "no url"}}
            /\ \/ Len(attempts[i]) = 2 /\ idx = i /\ pc = "local" /\ error = NoError
               \/ /\ Len(attempts[i]) = 3
                  /\ attempts[i][3].strategy = InstallLocalPackage
                  /\ (local.dep = deps[i] /\ local.result.raised = "none") =>
                         deps[i] \in Range(installed[InstallLocalPackage])

\* the index listed two urls for the version, neither ending with an accepted
\* suffix, and the dependency was then installed from its location
C4_Witness ==
    \E i \in 1..Len(deps) :
        /\ download
        /\ Len(attempts[i]) = 3
        /\ attempts[i][2].why = "no url"
        /\ Len(requests[i][1].answer.releases[deps[i].version]) = 2
        /\ deps[i] \in Range(installed[InstallLocalPackage])

-----------------------------------------------------------------------------
(* The cache lookup on its own: one dependency, one file in the cache.      *)

\* s with the characters at positions lo..hi in upper case
UpperRange(s, lo, hi) ==
    [i \in 1..Len(s) |-> IF lo <= i /\ i <= hi THEN Upper(<<s[i]>>)[1] ELSE s[i]]

\* a file name as it may be spelled: as given, all capitals, with the project
\* name in capitals, with a capital initial, with the extension in capitals
Spellings(file, name_length) ==
    { file, Upper(file), UpperRange(file, 1, name_length), UpperRange(file, 1, 1),
      UpperRange(file, Len(file) - 2, Len(file)) }

\* the file names that are key-version-suffix for an accepted suffix, with the
\* key as it is or with "-" as "_"
ExpectedWheelNames(dep, rt) ==
    UNION {Range(WheelNames(dep, GetWheelSuffixes(rt)[k])) : k \in 1..Len(GetWheelSuffixes(rt))}

InitCache ==
    \E rt \in {RuntimePython37, RuntimePython27} :
        \E file \in UNION {Spellings(n, Len(KeyFooBar)) : n \in ExpectedWheelNames(Dep(KeyFooBar), rt)} :
            Ready(KeyApp, rt, FALSE, <<Dep(KeyFooBar)>>, [f \in {file} |-> Zip], MainSystem)

NextCache == NextDependency \/ TryCached

SpecCache == InitCache /\ [][NextCache]_vars

\* C5: a file of the cache whose name is key-version-suffix up to letter case,
\* for an accepted suffix and the key as it is or with "-" as "_", is found by
\* the lookup: the cached strategy returns True.
C5_FoundUpToCase ==
    \A i \in 1..Len(deps) :
        (/\ attempts[i] # <<>>
         /\ \E f \in DOMAIN cache : Lower(f) \in {Lower(n) : n \in ExpectedWheelNames(deps[i], runtime)}) =>
            attempts[i][1] = Attempt(InstallManylinuxVersion, "True", "cached")

-----------------------------------------------------------------------------
(* find_shared_objects on its own: a build machine, a starting list, the    *)
(* same libraries listed another way, and the result given back to it.      *)

StartingLists == SeqsUpTo({LibA, LibB, LibC6}, MaxStart) \ {<<>>}

Find(shared_objects) ==
    FindSharedObjects(sys, shared_objects, LdLibraryPaths(sys.ldconfig), IgnoredSharedObjects)

\* the build machines on which ldconfig lists a directory
InitClosure ==
    \E s \in {m \in Systems : m.ldconfig # <<>>} :
        Started(KeyApp, RuntimePython37, FALSE, <<>>, <<>>, s, <<>>, "probe")

ApplyFind ==
    /\ pc = "probe"
    /\ probe.applied = 0
    /\ \E start \in StartingLists :
          probe' = [applied |-> 1, start |-> start, first |-> Find(start)]
    /\ UNCHANGED <<given, peer, temp_path, destination, earlier, cache, staging, idx, pc, attempts, requests, installed, error,
                   local, archive>>

ApplyAgain ==
    /\ pc = "probe"
    /\ probe.applied = 1
    /\ \E other \in StartingLists :
          /\ Range(other) = Range(probe.start)
          /\ probe' = [applied |-> 2, start |-> probe.start, first |-> probe.first,
                       other |-> other, second |-> Find(other),
                       twice |-> IF probe.first.ok THEN Find(probe.first.libs)
                                 ELSE probe.first]
    /\ UNCHANGED <<given, peer, temp_path, destination, earlier, cache, staging, idx, pc, attempts, requests, installed, error,
                   local, archive>>

NextClosure == ApplyFind \/ ApplyAgain

SpecClosure == InitClosure /\ [][NextClosure]_vars

\* C6: find_shared_objects returns a list for every starting list and every
\* NEEDED relation of the build machine, those with cycles included; it never
\* recurses until the interpreter stops it.
C6_ClosureTerminates == probe.applied >= 1 => probe.first.ok

\* C7: two listings of the same starting libraries, in any order and with or
\* without repeats, have the same outcome on one build machine, and
\* find_shared_objects applied to a list it returned returns that list.
C7_ClosureIdempotentOrderIndependent ==
    probe.applied = 2 =>
        /\ probe.second = probe.first
        /\ probe.first.ok => probe.twice = probe.first

\* two different listings of libraries whose closure holds a library that
\* neither lists, and is not the starting list itself
C7_Witness ==
    /\ probe.applied = 2
    /\ probe.other # probe.start
    /\ probe.first.ok
    /\ Range(probe.first.libs) \ Range(probe.start) # {}
    /\ Len(probe.start) > 1
    /\ probe.twice.ok

-----------------------------------------------------------------------------
(* Local installs that bring native libraries: cryptography on every build  *)
(* machine, python-magic and xmlsec with the libraries of their tables.     *)

InitSharedObjects ==
    \/ \E s \in Systems :
          Ready(KeyApp, RuntimePython37, FALSE, <<Dep(KeyCryptography)>>, <<>>, s)
    \/ \E d \in {Dep(KeyPythonMagic), Dep(KeyXmlsec)} :
          \E s \in {m \in Systems : m.needed[LibA] = <<>> /\ m.needed[LibB] = <<>>} :
              Ready(KeyApp, RuntimePython37, FALSE, <<d>>, <<>>, s)

NextSharedObjects == NextDependency \/ TryCached \/ TryLocal

SpecSharedObjects == InitSharedObjects /\ [][NextSharedObjects]_vars

\* a name that starts with a prefix of the ignore list
NamedLikeBaseLibrary(name) ==
    \E i \in 1..Len(IgnoredSharedObjects) : StartsWith(name, IgnoredSharedObjects[i])

\* the local install of the dependency returned True
LocalInstallSucceeded ==
    /\ local.dep # NoDep
    /\ local.result.raised = "none"
    /\ pc \in {"loop", "installed"}

\* C8: no library that a local install finds for copying, and no file it puts
\* in the staging tree, has a name that starts with libc.so, libz.so or
\* ld-linux-x86-64.so.
C8_NoBaseLibraryInClosure ==
    /\ local.dep # NoDep =>
          \A i \in 1..Len(local.result.closure) : ~NamedLikeBaseLibrary(local.result.closure[i])
    /\ \A name \in DOMAIN staging : ~NamedLikeBaseLibrary(name)

\* a local install that succeeded and copied libraries, among them one that no
\* extension module needs directly, where an extension module and a copied
\* library each need a base library
C8_Witness ==
    /\ LocalInstallSucceeded
    /\ Range(local.result.closure) \ Range(local.result.shared_objects) # {}
    /\ Range(local.result.closure) \subseteq DOMAIN staging
    /\ \E l \in Range(local.result.closure) :
          \E i \in 1..Len(sys.needed[l]) : NamedLikeBaseLibrary(sys.needed[l][i])
    /\ \E m \in DOMAIN local.loc.ext :
          \E k \in 1..Len(local.loc.ext[m]) :
              \E i \in 1..Len(local.loc.ext[m][k]) : NamedLikeBaseLibrary(local.loc.ext[m][k][i])

\* the libraries reached from a set by the NEEDED entries of those found in a
\* search path, base libraries left out: the least set closed under them
RECURSIVE Reach(_, _, _)
Reach(s, ld_library_paths, libs) ==
    LET more == UNION { Range(FindSharedObjectDependencies(
                            s, l, ld_library_paths, IgnoredSharedObjects)) : l \in libs }
    IN  IF more \subseteq libs THEN libs ELSE Reach(s, ld_library_paths, libs \cup more)

\* the local install got as far as its native libraries
AtSharedObjects ==
    /\ local.dep # NoDep
    /\ local.result.shared_objects # <<>>
    /\ local.result.raised \notin
          {"FileNotFoundError", "FileExistsError", "IsADirectoryError", "top_level.txt was not found"}

\* C9: a local install with native libraries raises the missing-library
\* exception when ldconfig listed no directory or some library of the closure is
\* in none of the directories listed; otherwise every library of the closure is
\* in the staging tree, copied from the first listed directory that holds it.
C9_MissingRaisesElseCopiedFromFirstPath ==
    AtSharedObjects =>
        LET ld_library_paths == LdLibraryPaths(sys.ldconfig)
            closure == Reach(sys, ld_library_paths, Range(local.result.shared_objects))
        IN  IF \/ ld_library_paths = <<>>
               \/ \E l \in closure : FirstPathHolding(sys, ld_library_paths, l) = 0
            THEN /\ pc = "failed"
                 /\ error.kind \in {"ld_library_paths is empty", "unable to find shared object"}
            ELSE /\ LocalInstallSucceeded
                 /\ \A l \in closure :
                       /\ l \in DOMAIN staging
                       /\ staging[l].data =
                             <<"lib", ld_library_paths[FirstPathHolding(sys, ld_library_paths, l)]>>

-----------------------------------------------------------------------------
(* create_zip_bundle: the files of the staging tree written to the archive. *)

\* the permission bits create_zip_bundle gives every entry: 0o755
Perm755 == 493

\* a mutant of ExternalAttr: the entry keeps the permission bits of its file
ExternalAttrOfFile(mode) == mode * 65536

\* "zi.external_attr = 0o755 << 16"
ExternalAttr(mode) == Perm755 * 65536

StagedPaths == {<<"a","p","p","/","_","_","i","n","i","t","_","_",".","p","y">>, <<"f","o","o","_","b","a","r","/","_","_","i","n","i","t","_","_",".","p","y">>, LibA}

\* permission bits of staged files: 0o600, 0o644, 0o755
StagedModes == {384, 420, 493}

StagingTrees ==
    { stg \in PartialFunctions(StagedPaths,
                               {Staged(<<"local", KeyFooBar>>, m) : m \in StagedModes}) :
        Cardinality(DOMAIN stg) <= MaxStaged }

\* the orders in which a file system may list the names of a directory
Listings == {"ascending", "descending"}

InitZip ==
    \E stg \in StagingTrees, file_object \in BOOLEAN, order \in Listings :
        StartedWith(KeyApp, RuntimePython37, FALSE, <<>>, <<>>, MainSystem, stg, "zip",
                    Options("plain", TRUE, file_object), order, NoWorkingSet)

Written == {archive[i].filename : i \in 1..Len(archive)}

\* os.walk yields f before g: the files of the top directory come first, then
\* those of the directories below it; names come in the file system's order
WalksBefore(f, g, order) ==
    LET below(p) == Contains(p, <<"/">>)
    IN  IF below(f) # below(g) THEN below(g)
        ELSE IF order = "ascending" THEN TextLess(f, g) ELSE TextLess(g, f)

\* the file the loop of create_zip_bundle comes to next
NextFile(stg, written, order) ==
    CHOOSE f \in DOMAIN stg \ written :
        \A g \in DOMAIN stg \ (written \cup {f}) : WalksBefore(f, g, order)

\* one pass of the loop over the files of os.walk, in the order it yields them;
\* output_archive hands a destination that is a file object to the ZipFile
WriteEntry ==
    /\ pc = "zip"
    /\ DOMAIN staging \ Written # {}
    /\ LET file == NextFile(staging, Written, listing)
       IN archive' = Append(archive, [filename |-> file,
                                      compress_type |-> "ZIP_DEFLATED",
                                      external_attr |-> ExternalAttr(staging[file].mode),
                                      data |-> staging[file].data])
    /\ destination' = IF options.file_object
                      THEN [state |-> "partial", entries |-> archive']
                      ELSE destination
    /\ UNCHANGED <<given, peer, temp_path, earlier, cache, staging, idx, pc, attempts, requests,
                   installed, error, local, probe>>

\* the loop is over and the archive is closed; written to a file object, the
\* archive is the destination and output_archive returns
CloseArchive ==
    /\ pc = "zip"
    /\ DOMAIN staging \subseteq Written
    /\ pc' = IF options.file_object THEN "archived" ELSE "zipped"
    /\ destination' = IF options.file_object
                      THEN [state |-> "complete", entries |-> archive]
                      ELSE destination
    /\ UNCHANGED <<given, peer, temp_path, earlier, cache, staging, idx, attempts, requests,
                   installed, error, local, archive, probe>>

NextZip == WriteEntry \/ CloseArchive

SpecZip == InitZip /\ [][NextZip]_vars

\* C10: every entry of the archive has the permission bits 0o755 in the high
\* half of its external attributes, whatever the bits of the staged file.
C10_EntriesCarry755 ==
    \A i \in 1..Len(archive) : archive[i].external_attr = 493 * 65536

\* a closed archive with an entry made from a staged file whose bits are not
\* 0o755
C10_Witness ==
    /\ pc = "zipped"
    /\ \E i \in 1..Len(archive) : staging[archive[i].filename].mode # 493

-----------------------------------------------------------------------------
(* package: the steps of populate_directory that follow install_dependencies, *)
(* output_archive, and leaving the temporary directory.                     *)

TxtIndexPy == <<"i","n","d","e","x",".","p","y">>
TxtApplicationPy == <<"a","p","p","l","i","c","a","t","i","o","n",".","p","y">>
TxtRequirementsTxt == <<"r","e","q","u","i","r","e","m","e","n","t","s",".","t","x","t">>
TxtSpindrift == <<"s","p","i","n","d","r","i","f","t">>
TxtWsgiPy == <<"/","w","s","g","i",".","p","y">>

Types == {"plain", "flask", "flask-eb", "flask-eb-reqs"}

\* the tree with only the files of S
Restrict(stg, S) == [p \in S |-> stg[p]]

\* the file lies in a directory named __pycache__
UnderPycache(p) ==
    StartsWith(p, TxtPycache \o <<"/">>) \/ Contains(p, <<"/">> \o TxtPycache \o <<"/">>)

\* the .py files prune_python_files finds to have a .pyc file next to them,
\* once the __pycache__ directories are gone
PyFilesWithPyc(stg) ==
    {p \in DOMAIN stg : /\ EndsWith(p, TxtPyExt)
                        /\ (p \o <<"c">>) \in DOMAIN stg
                        /\ ~UnderPycache(p \o <<"c">>)}

\* a mutant of Unlinked: every .py file is deleted, with a .pyc file or not
UnlinkedAllPy(stg, prefer_pyc) == {p \in DOMAIN stg : EndsWith(p, TxtPyExt)}

\* the files prune_python_files deletes with os.unlink
Unlinked(stg, prefer_pyc) ==
    {IF prefer_pyc THEN p ELSE p \o <<"c">> : p \in PyFilesWithPyc(stg)}

\* prune_python_files(path, prefer_pyc)
PrunedTree(stg, prefer_pyc) ==
    Restrict(stg, {p \in DOMAIN stg : ~UnderPycache(p)} \ Unlinked(stg, prefer_pyc))

\* install_flask_resources: the spindrift folder, unless the tree has one
FlaskResources(stg) ==
    IF StagedDir(stg, TxtSpindrift) \/ StagedFile(stg, TxtSpindrift) THEN <<>>
    ELSE [p \in {TxtSpindrift \o TxtInitPy, TxtSpindrift \o TxtWsgiPy} |->
             Staged(<<"spindrift", p>>, DefaultMode)]

\* insert_shim(path, type, entry): the files it writes
ShimFiles(stg, type) ==
    IF type = "plain" THEN (TxtIndexPy :> Staged(<<"shim", type>>, DefaultMode))
    ELSE IF type = "flask"
    THEN WriteFiles(FlaskResources(stg), (TxtIndexPy :> Staged(<<"shim", type>>, DefaultMode)))
    ELSE (TxtApplicationPy :> Staged(<<"shim", type>>, DefaultMode))

\* insert_requirements_txt: the file it writes
RequirementsFiles(type) ==
    IF type # "flask-eb-reqs" THEN <<>>
    ELSE (TxtRequirementsTxt :> Staged(<<"requirements", type>>, DefaultMode))

\* the run raised at the given place; the exception is on its way out of package
Fail(err) ==
    /\ pc' = "failed"
    /\ error' = err

\* install_project: install_local_package for the root package
InstallProject ==
    /\ pc = "installed"
    /\ \E loc \in LocationsOf(Dep(package)) :
          LET r == RunInstallLocalPackage(Dep(package), loc, sys, staging)
          IN  /\ staging' = r.staging
              /\ IF r.raised # "none"
                 THEN Fail(Raised(r.raised, "install_project",
                                  IF NamesDependency(r.raised) THEN Dep(package) ELSE NoDep))
                 ELSE pc' = "project" /\ error' = error
    /\ UNCHANGED <<given, peer, temp_path, destination, earlier, cache, idx, attempts, requests,
                   installed, local, archive, probe>>

PrunePythonFiles ==
    /\ pc = "project"
    /\ staging' = PrunedTree(staging, options.prefer_pyc)
    /\ pc' = "pruned"
    /\ UNCHANGED <<given, peer, temp_path, destination, earlier, cache, idx, attempts, requests,
                   installed, error, local, archive, probe>>

InsertShim ==
    /\ pc = "pruned"
    /\ staging' = WriteFiles(staging, ShimFiles(staging, options.type))
    /\ pc' = "shim"
    /\ UNCHANGED <<given, peer, temp_path, destination, earlier, cache, idx, attempts, requests,
                   installed, error, local, archive, probe>>

\* insert_requirements_txt; populate_directory returns and output_archive
\* opens the zip file
InsertRequirementsTxt ==
    /\ pc = "shim"
    /\ staging' = WriteFiles(staging, RequirementsFiles(options.type))
    /\ pc' = "zip"
    /\ UNCHANGED <<given, peer, temp_path, destination, earlier, cache, idx, attempts, requests,
                   installed, error, local, archive, probe>>

\* a write of create_zip_bundle fails (the disk is full, the file object does
\* not take the write): OSError; what was written stays written
WriteEntryFails ==
    /\ pc = "zip"
    /\ DOMAIN staging \ Written # {}
    /\ Fail(Raised("OSError", "create_zip_bundle", NoDep))
    /\ UNCHANGED <<given, peer, temp_path, destination, earlier, cache, staging, idx, attempts,
                   requests, installed, local, archive, probe>>

\* how shutil.copyfile of the zip file to the destination path ends: done, the
\* destination's directory missing, or the write failing part way
CopyOutcomes == {"ok", "FileNotFoundError", "OSError"}

\* output_zip_bundle(zip_path, destination)
OutputZipBundle ==
    /\ pc = "zipped"
    /\ \E got \in CopyOutcomes :
          IF got = "ok"
          THEN /\ destination' = [state |-> "complete", entries |-> archive]
               /\ pc' = "archived"
               /\ error' = error
          ELSE /\ destination' = IF got = "OSError"
                                 THEN [state |-> "partial", entries |-> archive]
                                 ELSE destination
               /\ Fail(Raised(got, "output_zip_bundle", NoDep))
    /\ UNCHANGED <<given, peer, temp_path, earlier, cache, staging, idx, attempts, requests,
                   installed, local, archive, probe>>

\* a mutant of LeavesWith: the directory is removed only when package returns
LeavesWithOnReturn(at) == at = "archived"

\* the places from which control leaves the with block of package: the end of
\* the block, and an exception raised inside it
LeavesWith(at) == at \in {"archived", "failed"}

\* TemporaryDirectory.__exit__: the directory and all it holds is removed
Cleanup == <<>>

\* control leaves the with block: the temporary directory is removed, and
\* package returns or the exception goes on to the caller
LeaveTemporaryDirectory ==
    /\ pc \in {"archived", "failed"}
    /\ pc' = IF pc = "archived" THEN "done" ELSE "raised"
    /\ IF LeavesWith(pc)
       THEN temp_path' = "removed" /\ staging' = Cleanup
       ELSE UNCHANGED <<temp_path, staging>>
    /\ UNCHANGED <<given, peer, destination, earlier, cache, idx, attempts, requests, installed,
                   error, local, archive, probe>>

\* the dependency lists of the runs: none, the root package and a dependency,
\* the dependency with the exempt one
RunDependencies ==
    { <<>>, <<Dep(KeyApp), Dep(KeyFooBar)>>, <<Dep(KeyCryptography), Dep(KeyFooBar)>> }

InitRun ==
    \E dl \in BOOLEAN, ds \in RunDependencies,
       type \in {"plain", "flask-eb-reqs"}, prefer_pyc \in BOOLEAN, file_object \in BOOLEAN :
        StartedWith(KeyApp, RuntimePython37, dl, ds, <<>>, MainSystem, <<>>, "loop",
                    Options(type, prefer_pyc, file_object), "ascending", NoWorkingSet)

NextRun ==
    \/ NextDependency \/ TryCached \/ TryDownload \/ TryLocal
    \/ InstallProject \/ PrunePythonFiles \/ InsertShim \/ InsertRequirementsTxt
    \/ WriteEntry \/ WriteEntryFails \/ CloseArchive \/ OutputZipBundle
    \/ LeaveTemporaryDirectory

SpecRun == InitRun /\ [][NextRun]_vars

\* the run is over: package has returned, or its exception has reached the caller
Ended == pc \in {"done", "raised"}

\* C11: when a run of package is over, however it ended, its temporary
\* directory is gone.
C11_TreeGoneWhenRunEnds == Ended => temp_path = "removed" /\ staging = <<>>

\* a run ended by an exception of create_zip_bundle, the tree removed
C11_Witness ==
    /\ pc = "raised"
    /\ error.site = "create_zip_bundle"
    /\ archive # <<>>
    /\ temp_path = "removed"


\* the tree is fully populated: populate_directory has returned
Populated == pc \in {"zip", "zipped", "archived", "done"}

\* the run ended, or is ending, in a fatal error
Fatal == pc \in {"failed", "raised"}

\* C12: no partial archive is ever emitted: nothing is written to the
\* destination before the staging tree is fully populated, and after a run that
\* ended in a fatal error the destination holds no archive of that run,
\* complete or partial
C12_NoPartialArchive ==
    /\ ~Populated /\ ~Fatal => destination = Untouched
    /\ Fatal => destination = Untouched

\* the half of C12 that the code keeps: the destination is untouched until
\* populate_directory has returned
C12_NothingBeforePopulated ==
    destination # Untouched => Populated \/ (Fatal /\ error.site \in {"create_zip_bundle", "output_zip_bundle"})


\* the names that the code singles out by key, and the names of the examples
BuiltInKeys ==
    { KeyCryptography, KeyXmlsec, KeyPythonMagic, KeyPyyaml, KeyCffi, KeyPyrsistent,
      KeySetuptools, KeySqlalchemyRedshift, KeyFooBar, KeyApp }

\* the names that both precompiled strategies refuse
ExemptKeys == {k \in BuiltInKeys : IsExemptFromCache(Dep(k)) /\ IsExemptFromDownload(Dep(k))}

\* dependency i is exempt and is not the root package
ExemptDependency(i) == deps[i].key \in ExemptKeys /\ ~IsRootPackage(deps[i], package)

\* the cascade of dependency i is over and raised nothing
CascadeOver(i) == i < idx \/ pc = "installed"

\* for an exempt dependency the cache is not consulted, the index is not
\* queried, and once its cascade is over it is installed with local-source
ExemptRoutedToLocal(i) ==
    /\ \A n \in 1..Len(attempts[i]) :
          attempts[i][n].strategy # InstallLocalPackage
              => attempts[i][n].outcome = "False" /\ attempts[i][n].why = "exempt"
    /\ requests[i] = <<>>
    /\ CascadeOver(i) => /\ deps[i] \in Range(installed[InstallLocalPackage])
                         /\ deps[i] \notin Range(installed[InstallManylinuxVersion])
                         /\ deps[i] \notin Range(installed[DownloadAndInstallManylinuxVersion])

\* C13 as stated: two built-in names are exempt from both precompiled
\* strategies; for each the cache is not consulted, the index is not queried and
\* the dependency is installed with local-source
C13_TwoNamesExempt ==
    /\ Cardinality(ExemptKeys) = 2
    /\ \A i \in 1..Len(deps) : ExemptDependency(i) => ExemptRoutedToLocal(i)

\* C13 amended: exactly one name, cryptography, is exempt from both
\* precompiled strategies: whatever the cache holds and the index would answer,
\* the cache is not consulted, the index is not queried, and when its cascade
\* ends without an error it is installed with local-source
C13_CryptographyExempt ==
    /\ ExemptKeys = {KeyCryptography}
    /\ \A i \in 1..Len(deps) : ExemptDependency(i) => ExemptRoutedToLocal(i)

C13_Witness ==
    /\ pc = "installed"
    /\ download
    /\ FileStem(Dep(KeyCryptography), Version10) \o TxtAnyWheel \in DOMAIN cache
    /\ \E i \in 1..Len(deps) :
          /\ deps[i].key = KeyCryptography
          /\ Len(attempts[i]) = 3
          /\ deps[i] \in Range(installed[InstallLocalPackage])


\* ---------------------------------------------------------------------------
\* _get_wheel_suffixes applied on its own to runtime tags of many shapes
\* ---------------------------------------------------------------------------

\* the runtime tags given: a prefix, a major version, a separator and a rest
RuntimeTags ==
    { prefix \o major \o sep \o rest :
        prefix \in {TxtPython, <<"P","y","t","h","o","n">>, <<"p","y">>, <<>>},
        major \in {<<"2">>, <<"3">>, <<"4">>},
        sep \in {<<".">>, <<>>},
        rest \in {<<"6">>, <<"7">>, <<"8">>, <<"9">>, <<"1","0">>, <<"x">>, <<>>,
                  <<"7",".","1">>} }

InitSuffixes ==
    \E rt \in RuntimeTags :
        Started(KeyApp, rt, FALSE, <<>>, <<>>, MainSystem, <<>>, "suffixes")

\* _get_wheel_suffixes(runtime): the exception it raises or the list it
\* returns, and whether it warned
ApplyGetWheelSuffixes ==
    /\ pc = "suffixes"
    /\ probe.applied = 0
    /\ probe' = [applied |-> 1,
                 raised |-> IF RuntimeParses(runtime) THEN "none" ELSE "ValueError",
                 warned |-> RuntimeWarns(runtime),
                 suffixes |-> IF RuntimeParses(runtime) THEN GetWheelSuffixes(runtime)
                              ELSE <<>>]
    /\ UNCHANGED <<given, peer, temp_path, destination, earlier, cache, staging, idx, pc, attempts,
                   requests, installed, error, local, archive>>

NextSuffixes == ApplyGetWheelSuffixes

SpecSuffixes == InitSuffixes /\ [][NextSuffixes]_vars

\* the fields of a text between the occurrences of a separator
RECURSIVE SplitOn(_, _)
SplitOn(s, ch) ==
    IF \A n \in 1..Len(s) : s[n] # ch THEN <<s>>
    ELSE LET at == CHOOSE n \in 1..Len(s) : s[n] = ch /\ \A m \in 1..(n - 1) : s[m] # ch
         IN  <<SubSeq(s, 1, at - 1)>> \o SplitOn(SubSeq(s, at + 1, Len(s)), ch)

\* the tags of a wheel suffix 'interpreter-abi-platform.whl'
InterpreterOf(suffix) == SplitOn(suffix, "-")[1]
AbiOf(suffix) == SplitOn(suffix, "-")[2]
PlatformOf(suffix) == SplitOn(suffix, "-")[3]

\* how specific the ABI of a suffix is: a concrete interpreter ABI, the stable
\* ABI abi3, or none
Specificity(suffix) ==
    IF AbiOf(suffix) = <<"n","o","n","e">> THEN 0
    ELSE IF AbiOf(suffix) = <<"a","b","i","3">> THEN 1
    ELSE 2

\* the year of the platform baseline a suffix names (manylinux_2_17 is
\* manylinux2014, manylinux1 is of 2007); 0 for 'any'
Baseline(suffix) ==
    IF StartsWith(PlatformOf(suffix), <<"m","a","n","y","l","i","n","u","x","_","2","_","1","7","_">>) THEN 2014
    ELSE IF StartsWith(PlatformOf(suffix), <<"m","a","n","y","l","i","n","u","x","2","0","1","0","_">>) THEN 2010
    ELSE IF StartsWith(PlatformOf(suffix), <<"m","a","n","y","l","i","n","u","x","1","_">>) THEN 2007
    ELSE 0

\* a list of suffixes runs from most to least specific
MostToLeastSpecific(suffixes) ==
    \A i, j \in 1..Len(suffixes) :
        i < j =>
            /\ Specificity(suffixes[i]) >= Specificity(suffixes[j])
            /\ (InterpreterOf(suffixes[i]) = InterpreterOf(suffixes[j])
                /\ AbiOf(suffixes[i]) = AbiOf(suffixes[j]))
                   => Baseline(suffixes[i]) > Baseline(suffixes[j])

\* C14: for every recognized runtime tag the list returned runs from most to
\* least specific: concrete ABI before abi3 before none-any, and with the same
\* interpreter and ABI a newer platform baseline before an older one
C14_MostToLeastSpecific ==
    (probe.applied = 1 /\ runtime \in AvailableRuntimes)
        => probe.raised = "none" /\ MostToLeastSpecific(probe.suffixes)


Digits == {"0", "1", "2", "3", "4", "5", "6", "7", "8", "9"}

IsDigits(s) == s # <<>> /\ \A n \in 1..Len(s) : s[n] \in Digits

\* what follows 'python' in a tag that starts with it
AfterPython(rt) == SubSeq(rt, Len(TxtPython) + 1, Len(rt))

\* the tag has the shape python<major>.<minor> with numbers for both
ParsesIntoMajorMinor(rt) ==
    /\ StartsWith(rt, TxtPython)
    /\ LET fields == SplitOn(AfterPython(rt), ".")
       IN  Len(fields) = 2 /\ IsDigits(fields[1]) /\ IsDigits(fields[2])

MajorOf(rt) == SplitOn(AfterPython(rt), ".")[1]
MinorOf(rt) == SplitOn(AfterPython(rt), ".")[2]

\* some suffix of the list has this interpreter tag
HasInterpreter(suffixes, tag) ==
    \E n \in 1..Len(suffixes) : InterpreterOf(suffixes[n]) = tag

\* C15 as stated: the resolver fails exactly when the tag cannot be parsed
\* into major and minor; a tag that parses and is not known gets a warning, no
\* failure and a non-empty list derived from its major and minor
C15_FailsExactlyWhenUnparseable ==
    probe.applied = 1 =>
        /\ probe.raised = "ValueError" <=> ~ParsesIntoMajorMinor(runtime)
        /\ (ParsesIntoMajorMinor(runtime) /\ runtime \notin AvailableRuntimes)
              => /\ probe.warned
                 /\ probe.suffixes # <<>>
                 /\ HasInterpreter(probe.suffixes, TxtCp \o MajorOf(runtime) \o MinorOf(runtime))
                 /\ HasInterpreter(probe.suffixes, TxtPy \o MajorOf(runtime))

\* the tag starts with 'python2.' or 'python3.'
HasKnownMajor(rt) ==
    /\ Len(rt) >= Len(TxtPython) + 2
    /\ SubSeq(rt, 1, Len(TxtPython)) = TxtPython
    /\ rt[Len(TxtPython) + 1] \in {"2", "3"}
    /\ rt[Len(TxtPython) + 2] = "."

\* a text without its dots
Undotted(s) == SelectSeq(s, LAMBDA c : c # ".")

\* C15 amended: the resolver fails exactly when the tag does not start with
\* 'python2.' or 'python3.'; a tag that starts so and is not known gets a
\* warning, no failure and a non-empty list whose interpreter tags are 'cp'
\* with the tag's text after 'python' less its dots, and 'py' with the major
\* digit; a known tag gets no warning
C15_FailsExactlyWithoutKnownMajor ==
    probe.applied = 1 =>
        /\ probe.raised = "ValueError" <=> ~HasKnownMajor(runtime)
        /\ (HasKnownMajor(runtime) /\ runtime \notin AvailableRuntimes)
              => /\ probe.warned
                 /\ probe.suffixes # <<>>
                 /\ HasInterpreter(probe.suffixes, TxtCp \o Undotted(AfterPython(runtime)))
                 /\ HasInterpreter(probe.suffixes, TxtPy \o <<runtime[Len(TxtPython) + 1]>>)
        /\ runtime \in AvailableRuntimes => ~probe.warned /\ probe.raised = "none"

C15_Witness ==
    /\ probe.applied = 1
    /\ runtime = TxtPython \o <<"3",".","1","0">>
    /\ probe.warned
    /\ probe.raised = "none"
    /\ HasInterpreter(probe.suffixes, <<"c","p","3","1","0">>)


\* C16: a run given an unparseable runtime tag fails at once, whatever the
\* dependency list: install_dependencies never returns, and no dependency is
\* installed into the staging tree before the failure
C16_UnparseableFailsAtOnce ==
    ~HasKnownMajor(runtime) =>
        /\ pc # "installed"
        /\ staging = <<>>
        /\ \A method \in DOMAIN installed : installed[method] = <<>>


\* ---------------------------------------------------------------------------
\* a later run with the same dependencies, runtime and cache directory
\* ---------------------------------------------------------------------------

InitLater ==
    \E rt \in {RuntimePython37, RuntimePython27}, ds \in SeqsNoRep(Dependencies, MaxDeps),
       present \in SUBSET CachedBefore :
        Ready(KeyApp, rt, TRUE, ds, [f \in present |-> Zip], MainSystem)

\* install_dependencies has returned in a run that downloaded something; a
\* later run starts with a new staging tree and finds the cache directory as
\* the earlier run left it
StartLaterRun ==
    /\ pc = "installed"
    /\ earlier = <<>>
    /\ installed[DownloadAndInstallManylinuxVersion] # <<>>
    /\ earlier' = installed[DownloadAndInstallManylinuxVersion]
    /\ staging' = <<>>
    /\ idx' = 1
    /\ pc' = "loop"
    /\ attempts' = [i \in 1..Len(deps) |-> <<>>]
    /\ requests' = [i \in 1..Len(deps) |-> <<>>]
    /\ installed' = [m \in Methods |-> <<>>]
    /\ UNCHANGED <<given, peer, temp_path, destination, cache, error, local, archive, probe>>

NextLater == NextDependency \/ TryCached \/ TryDownload \/ TryLocal \/ StartLaterRun

SpecLater == InitLater /\ [][NextLater]_vars

\* the cache directory holds an intact artifact of the dependency
ArtifactCached(dep) ==
    \E file \in DOMAIN cache :
        /\ StartsWith(file, FileStem(dep, dep.version))
        /\ EndsWith(file, TxtWhl)
        /\ cache[file] = Zip

\* C17: after a download succeeded for a dependency, a runtime and a cache
\* directory, the artifact is in the cache directory and every later install
\* of that dependency for that runtime with that cache directory is satisfied
\* by the cached strategy, without a network request
C17_LaterInstallFromCache ==
    \A i \in 1..Len(deps) :
        deps[i] \in Range(earlier) =>
            /\ ArtifactCached(deps[i])
            /\ requests[i] = <<>>
            /\ attempts[i] # <<>>
                  => /\ attempts[i][1].strategy = InstallManylinuxVersion
                     /\ attempts[i][1].outcome = "True"


\* the step is one in which the cached or the download strategy returned false
ReturnsFailure ==
    /\ pc \in {"cached", "download"}
    /\ Len(attempts'[idx]) = Len(attempts[idx]) + 1
    /\ attempts'[idx][Len(attempts'[idx])].outcome = "False"

\* C18: whenever the cached or the download strategy returns failure, the
\* staging tree holds the files and contents it held before the attempt, and
\* no file has been added to the cache
C18_FailureLeavesNoTrace ==
    [][ReturnsFailure => staging' = staging /\ cache' = cache]_vars

C18_Witness ==
    /\ pc = "local"
    /\ idx = 2
    /\ staging # <<>>
    /\ cache # <<>>
    /\ Len(attempts[idx]) = 2
    /\ attempts[idx][2].strategy = DownloadAndInstallManylinuxVersion
    /\ attempts[idx][2].outcome = "False"
    /\ attempts[idx][2].why = "no url"
    /\ Len(requests[idx]) = 1


\* the step is one of the run before the staging tree is torn down
BeforeTeardown == pc \notin {"archived", "failed"}

\* C19: the staging tree is append-only from its creation until the archive
\* has been written: no step removes a file that was placed in it or changes
\* the contents of one
C19_AppendOnly ==
    [][BeforeTeardown =>
          \A f \in DOMAIN staging : f \in DOMAIN staging' /\ staging'[f] = staging[f]]_vars

\* the file is one that pruning deletes: it lies in a __pycache__ directory, or
\* it is the unwanted half of a pair of a .py file and its .pyc file
RemovedByPruning(f, stg, prefer_pyc) ==
    \/ UnderPycache(f)
    \/ prefer_pyc /\ EndsWith(f, TxtPyExt) /\ (f \o <<"c">>) \in DOMAIN stg
    \/ ~prefer_pyc /\ EndsWith(f, TxtPyExt \o <<"c">>) /\ SubSeq(f, 1, Len(f) - 1) \in DOMAIN stg

\* the steps that write files into the staging tree: the three strategies with
\* the patch hook, project install, shim writing and manifest writing
WritingSteps == {"cached", "download", "local", "installed", "pruned", "shim"}

\* C19 amended: until the archive has been written, a file placed in the
\* staging tree is removed only by pruning, and only if it lies in a
\* __pycache__ directory or is the unwanted half of a .py/.pyc pair; its
\* contents change only in a step that writes files (a dependency install with
\* its patch hook, project install, shim or manifest writing)
C19_RemovedOnlyByPruning ==
    [][BeforeTeardown =>
          \A f \in DOMAIN staging :
              /\ f \notin DOMAIN staging'
                    => pc = "project" /\ RemovedByPruning(f, staging, options.prefer_pyc)
              /\ (f \in DOMAIN staging' /\ staging'[f] # staging[f])
                    => pc \in WritingSteps]_vars

C19_Witness ==
    /\ pc = "pruned"
    /\ options.prefer_pyc
    /\ local.dep = Dep(KeyFooBar)
    /\ local.loc = Compiled(Directory(<<Line(ModuleName(local.dep))>>,
                                      (ModuleName(local.dep) :> Entry("dir", 493)), <<>>))
    /\ (ModuleName(local.dep) \o TxtInitPyc) \in DOMAIN staging
    /\ (ModuleName(local.dep) \o TxtInitPy) \notin DOMAIN staging


\* ---------------------------------------------------------------------------
\* local-source installs of a dependency whose sidecar lists several members
\* ---------------------------------------------------------------------------

InitTopLevel ==
    \E dl \in BOOLEAN, ds \in {<<Dep(KeyAttrs)>>, <<Dep(KeyApp), Dep(KeyAttrs)>>},
       present \in SUBSET CachedBefore :
        Ready(KeyApp, RuntimePython37, dl, ds, [f \in present |-> Zip], MainSystem)

NextTopLevel == NextDependency \/ TryCached \/ TryDownload \/ TryLocal

SpecTopLevel == InitTopLevel /\ [][NextTopLevel]_vars

\* member m equals member p or lies beneath it as a path
Beneath(m, p) == m = p \/ StartsWith(m, p \o <<"/">>)

\* the members accepted from a list: each one that is not beneath a member
\* accepted before it
RECURSIVE AcceptedAfter(_, _)
AcceptedAfter(accepted, members) ==
    IF members = <<>> THEN accepted
    ELSE AcceptedAfter(
             IF \E n \in 1..Len(accepted) : Beneath(Head(members), accepted[n])
             THEN accepted
             ELSE Append(accepted, Head(members)),
             Tail(members))

\* the members a sidecar lists, one to a line
MembersListed(loc) == [n \in 1..Len(loc.top_level) |-> Strip(loc.top_level[n], Whitespace)]

\* install_local_package has run for the dependency with several members and
\* raised nothing
InstalledFromMembers ==
    /\ local.dep = Dep(KeyAttrs)
    /\ local.result.raised = "none"

\* C20: a member listed in top_level.txt is skipped exactly when it equals or
\* lies beneath a member accepted earlier; every other member is copied,
\* attrs listed after attr among them
C20_SkippedExactlyWhenBeneath ==
    InstalledFromMembers =>
        /\ local.result.to_copy = AcceptedAfter(<<>>, MembersListed(local.loc))
        /\ \A n \in 1..Len(local.loc.top_level) :
              LET m == MembersListed(local.loc)[n]
              IN  (\A k \in 1..(n - 1) : ~Beneath(m, MembersListed(local.loc)[k]))
                      => StagedDir(staging, m)


\* the libraries the code adds for a dependency by name, without reading them
\* off an extension module
SupplementalLibraries(dep) ==
    IF dep.key = KeyXmlsec THEN XmlsecSharedObjects
    ELSE IF dep.key = KeyPythonMagic THEN PythonMagicSharedObjects
    ELSE <<>>

\* install_local_package has installed, from a directory and without an
\* error, a dependency that the table names
TableDependencyInstalled ==
    /\ local.dep # NoDep
    /\ SupplementalLibraries(local.dep) # <<>>
    /\ local.loc.kind = "dir"
    /\ ~local.loc.egg_zip
    /\ local.result.raised = "none"

\* C21: for a dependency of the supplemental table, every local-source install
\* from a directory resolves the table's libraries, with or without a sidecar
\* and whatever the sidecar lists: an install that did not fail has copied each
\* of them to the root of the staging tree
C21_TableLibrariesAlwaysResolved ==
    TableDependencyInstalled =>
        \A n \in 1..Len(SupplementalLibraries(local.dep)) :
            SupplementalLibraries(local.dep)[n] \in DOMAIN staging


\* ---------------------------------------------------------------------------
\* find_dependencies applied on its own to working sets of every shape
\* ---------------------------------------------------------------------------

KeyBoto3 == <<"b","o","t","o","3">>
KeyBotocore == <<"b","o","t","o","c","o","r","e">>

\* the distributions of the working sets, and what one may require: a
\* requirement names a distribution and carries a marker that holds or not
Distributions == {KeyApp, KeyFooBar, KeyBoto3}

Requirements ==
    {[key |-> k, marker |-> TRUE] : k \in Distributions}
        \cup {[key |-> KeyFooBar, marker |-> FALSE]}

\* a distribution requires at most all the distributions but one
MaxRequires == Cardinality(Distributions) - 1

\* the working sets: every distribution installed, or foo-bar not installed;
\* boto3 requires nothing or one of the others
WorkingSets ==
    { ws \in UNION {[present -> SeqsNoRep(Requirements, MaxRequires)] :
                       present \in {Distributions, Distributions \ {KeyFooBar}}} :
        Len(ws[KeyBoto3]) <= 1 /\ \A i \in 1..Len(ws[KeyBoto3]) : ws[KeyBoto3][i].marker }

\* what find_dependencies gives: the exception it ends with, or the list
Found(raised, ret) == [raised |-> raised, ret |-> ret]

\* package_name after renamed_packages, a dict, was applied
Renamed(package_name, renamed_packages) ==
    IF package_name \in DOMAIN renamed_packages THEN renamed_packages[package_name]
    ELSE package_name

\* boto is left out unless the type is one for Elastic Beanstalk
BotoLeftOut(key, type, boto_handling) ==
    /\ key \in {KeyBoto3, KeyBotocore}
    /\ boto_handling = "default"
    /\ type \notin {"flask-eb", "flask-eb-reqs"}

\* find_dependencies called at the given depth of the call stack
RECURSIVE FindDependenciesAt(_, _, _, _, _, _)
FindDependenciesAt(ws, type, package_name, renamed_packages, boto_handling, depth) ==
    LET name == Renamed(package_name, renamed_packages)
    IN  IF depth > RecursionLimit THEN Found("RecursionError", <<>>)
        ELSE IF name = None THEN Found("none", <<>>)
        ELSE IF name \notin DOMAIN ws THEN Found("KeyError", <<>>)
        ELSE IF BotoLeftOut(name, type, boto_handling) THEN Found("none", <<>>)
        ELSE
            LET requires == ws[name]
                ret[i \in 0..Len(requires)] ==
                    IF i = 0 THEN Found("none", <<name>>)
                    ELSE IF ret[i - 1].raised # "none" THEN ret[i - 1]
                    ELSE IF ~requires[i].marker THEN ret[i - 1]
                    ELSE LET below == FindDependenciesAt(ws, type, requires[i].key,
                                                         renamed_packages, boto_handling,
                                                         depth + 1)
                         IN  IF below.raised # "none" THEN Found(below.raised, <<>>)
                             ELSE Found("none", ret[i - 1].ret \o below.ret)
                all == ret[Len(requires)]
            IN  IF all.raised # "none" THEN Found(all.raised, <<>>)
                ELSE Found("none", SortedSet(all.ret))

FindDependencies(ws, type, package_name, renamed_packages, boto_handling) ==
    FindDependenciesAt(ws, type, package_name, renamed_packages, boto_handling, 1)

\* the values of renamed_packages: nothing renamed, foo-bar left out, foo-bar
\* replaced by boto3
Renamings == {<<>>, (KeyFooBar :> None), (KeyFooBar :> KeyBoto3)}

InitDependencies ==
    \E ws \in WorkingSets, type \in {"plain", "flask-eb"} :
        StartedWith(KeyApp, RuntimePython37, FALSE, <<>>, <<>>, MainSystem, <<>>, "working_set",
                    Options(type, TRUE, FALSE), "ascending", ws)

\* package calls find_dependencies for the package it was given
ApplyFindDependencies ==
    /\ pc = "working_set"
    /\ probe.applied = 0
    /\ \E renamed_packages \in Renamings, boto_handling \in {"default", "include"} :
          probe' = [applied |-> 1,
                    renamed_packages |-> renamed_packages,
                    boto_handling |-> boto_handling,
                    found |-> FindDependencies(working_set, options.type, package,
                                               renamed_packages, boto_handling)]
    /\ UNCHANGED <<given, peer, temp_path, destination, earlier, cache, staging, idx, pc, attempts,
                   requests, installed, error, local, archive>>

NextDependencies == ApplyFindDependencies

SpecDependencies == InitDependencies /\ [][NextDependencies]_vars

\* C22: find_dependencies terminates on every finite dependency graph,
\* whatever its shape: it returns a list or fails for a distribution that is
\* not installed, and never runs out of call stack
C22_WalkTerminates ==
    probe.applied = 1 => probe.found.raised # "RecursionError"


\* ---------------------------------------------------------------------------
\* two runs that share one cache directory
\* ---------------------------------------------------------------------------

InitShared ==
    \E rt \in {RuntimePython37, RuntimePython27},
       ds \in {<<Dep(KeyFooBar)>>, <<Dep(KeyApp), Dep(KeyFooBar)>>,
               <<Dep(KeyCryptography), Dep(KeyFooBar)>>},
       dl \in BOOLEAN, present \in SUBSET CachedBefore :
        Ready(KeyApp, rt, dl, ds, [f \in present |-> Zip], MainSystem)

\* the other run, in download_and_install_manylinux_version for foo-bar, has
\* chosen a url and opens the file in the cache directory for writing, which
\* empties it
PeerOpens ==
    /\ peer.at = "start"
    /\ \E res \in IndexResponses(Dep(KeyFooBar)) :
          /\ res.status = "200"
          /\ Version10 \in DOMAIN res.releases
          /\ LET url == FindUrl(res.releases[Version10], GetWheelSuffixes(runtime))
             IN  /\ url # None
                 /\ peer' = [at |-> "writing", file |-> Basename(url)]
                 /\ cache' = WithFile(cache, Basename(url), Truncated)
    /\ UNCHANGED <<given, temp_path, destination, earlier, staging, idx, pc, attempts, requests,
                   installed, error, local, archive, probe>>

\* the other run has written the last chunk and closes the file, or its
\* download breaks and the file stays as far as it was written
PeerCloses ==
    /\ peer.at = "writing"
    /\ \E got \in DownloadOutcomes :
          IF got = "ok"
          THEN /\ cache' = WithFile(cache, peer.file, Zip)
               /\ peer' = [peer EXCEPT !.at = "written"]
          ELSE /\ cache' = cache
               /\ peer' = [peer EXCEPT !.at = "failed"]
    /\ UNCHANGED <<given, temp_path, destination, earlier, staging, idx, pc, attempts, requests,
                   installed, error, local, archive, probe>>

NextShared ==
    NextDependency \/ TryCached \/ TryDownload \/ TryLocal \/ PeerOpens \/ PeerCloses

SpecShared == InitShared /\ [][NextShared]_vars

\* C23: two runs that share a cache directory tolerate each other: no run
\* extracts a file that the other run has opened for writing and not finished
\* writing, so no run fails on an unfinished file of the other
C23_NeverExtractsUnfinishedFile ==
    (pc = "failed" /\ peer.at = "writing") => error.kind # "BadZipFile"

-----------------------------------------------------------------------------
(* A run that follows one in which the download of an artifact failed.      *)

\* the download strategy raised while it fetched the artifact
ArtifactDownloadFailed ==
    /\ pc = "failed"
    /\ error.site = "download_and_install_manylinux_version"
    /\ attempts[idx] # <<>>
    /\ attempts[idx][Len(attempts[idx])].strategy = DownloadAndInstallManylinuxVersion
    /\ attempts[idx][Len(attempts[idx])].why = "artifact"

\* "wheel_name = os.path.basename(url)" of the download that was last asked
\* of the index for the current dependency
ChosenWheelName ==
    LET res == requests[idx][1].answer
    IN  Basename(FindUrl(res.releases[Current.version], GetWheelSuffixes(runtime)))

InitRetry ==
    \E rt \in {RuntimePython37, RuntimePython27}, ds \in SeqsNoRep(Dependencies, MaxDeps),
       present \in SUBSET CachedBefore :
        Ready(KeyApp, rt, TRUE, ds, [f \in present |-> Zip], MainSystem)

\* a run ended in the download of an artifact; the same dependencies are
\* installed again with the same runtime and the cache directory as that run
\* left it; earlier holds the dependency whose download failed
StartRunAfterFailure ==
    /\ ArtifactDownloadFailed
    /\ earlier = <<>>
    /\ earlier' = <<Current>>
    /\ staging' = <<>>
    /\ idx' = 1
    /\ pc' = "loop"
    /\ error' = NoError
    /\ attempts' = [i \in 1..Len(deps) |-> <<>>]
    /\ requests' = [i \in 1..Len(deps) |-> <<>>]
    /\ installed' = [m \in Methods |-> <<>>]
    /\ UNCHANGED <<given, peer, temp_path, destination, cache, local, archive, probe>>

NextRetry == NextDependency \/ TryCached \/ TryDownload \/ TryLocal \/ StartRunAfterFailure

SpecRetry == InitRetry /\ [][NextRetry]_vars

\* C24: when the download of an artifact has failed, the cache directory
\* holds no file under the artifact's name, and the run that installs the
\* same dependencies next with the same cache directory never ends in the
\* cached strategy with an artifact that is no archive
C24_FailedDownloadLeavesNoFile ==
    /\ ArtifactDownloadFailed => ChosenWheelName \notin DOMAIN cache
    /\ (earlier # <<>> /\ pc = "failed") => error.kind # "BadZipFile"

\* the first half alone, and the second half alone
C24_NoFileAfterFailure == ArtifactDownloadFailed => ChosenWheelName \notin DOMAIN cache

C24_LaterRunNeverBadZip == (earlier # <<>> /\ pc = "failed") => error.kind # "BadZipFile"

=============================================================================
